---- MODULE Spec2Model ----
(***************************************************************************)
(* A model of the chess engine core of ChessEngine2021: the bitboard       *)
(* position (Board), the legal move generator (MoveGen) and the            *)
(* snapshot/restore discipline of the searcher (Search).                   *)
(*                                                                         *)
(* A 64 bit bitboard is modelled as the set of its set bits, a subset of   *)
(* 0..63: bit s is square s, row s \div 8, column s % 8.  Bitwise and, or  *)
(* and complement become \cap, \cup and Not; a shift becomes Shl / Shr,    *)
(* which drop the bits shifted out of the 64 bit word.                     *)
(***************************************************************************)
EXTENDS Integers, Sequences, FiniteSets, TLC

----------------------------------------------------------------------------
(* Bitboards.h / Constants.h *)

Squares == 0..63

FILLED_BOARD == Squares

Not(b) == Squares \ b

Shl(b, n) == {s + n : s \in {x \in b : x + n <= 63}}

Shr(b, n) == {s - n : s \in {x \in b : x - n >= 0}}

boardOf(square) == {square}

countSetBits(b) == Cardinality(b)

getLeastSquare(b) == CHOOSE s \in b : \A t \in b : s <= t

isOnBoard(row, col) == row >= 0 /\ row < 8 /\ col >= 0 /\ col < 8

Abs(x) == IF x < 0 THEN -x ELSE x

RankOf(r) == {s \in Squares : s \div 8 = r}

FileOf(c) == {s \in Squares : s % 8 = c}

RANK0 == RankOf(0)
RANK2 == RankOf(2)
RANK3 == RankOf(3)
RANK4 == RankOf(4)
\* the row below RANK5
RANK5_oneRowLow == RankOf(4)

RANK5 == RankOf(5)
RANK7 == RankOf(7)
FILE0 == FileOf(0)
FILE7 == FileOf(7)

OUTER_SQUARES == {s \in Squares : s \div 8 \in {0, 7} \/ s % 8 \in {0, 7}}

\* enum PieceType
PLAYER_PAWN == 0
PLAYER_KNIGHT == 1
PLAYER_BISHOP == 2
PLAYER_ROOK == 3
PLAYER_QUEEN == 4
PLAYER_KING == 5
ENGINE_PAWN == 6
ENGINE_KNIGHT == 7
ENGINE_BISHOP == 8
ENGINE_ROOK == 9
ENGINE_QUEEN == 10
ENGINE_KING == 11
NONE == 12

PieceTypes == 0..11

\* PIECE_VALUES[12], indexed from 0
PIECE_VALUES == [p \in PieceTypes |->
    CASE p \in {PLAYER_PAWN, ENGINE_PAWN} -> 100
      [] p \in {PLAYER_KNIGHT, ENGINE_KNIGHT} -> 350
      [] p \in {PLAYER_BISHOP, ENGINE_BISHOP} -> 400
      [] p \in {PLAYER_ROOK, ENGINE_ROOK} -> 500
      [] p \in {PLAYER_QUEEN, ENGINE_QUEEN} -> 800
      [] OTHER -> 0]

\* enum Board::MoveType
QUEEN_PROMOTION == 0
KNIGHT_PROMOTION == 1
BISHOP_PROMOTION == 2
ROOK_PROMOTION == 3
EN_PASSANT == 4
NORMAL == 5

\* ENGINE_IS_WHITE = true: the castling bitboards of that branch
PLAYER_KINGSIDE_CASTLE == {57, 58, 59}
ENGINE_KINGSIDE_CASTLE == {1, 2, 3}
PLAYER_QUEENSIDE_CASTLE == {59, 60, 61}
ENGINE_QUEENSIDE_CASTLE == {3, 4, 5}
ENGINE_QUEENSIDE_DESTINATION == {5}
ENGINE_KINGSIDE_DESTINATION == {1}
PLAYER_KINGSIDE_DESTINATION == {57}
PLAYER_QUEENSIDE_DESTINATION == {61}
PLAYER_KINGSIDE_ROOK == {56}
ENGINE_KINGSIDE_ROOK == {0}
PLAYER_QUEENSIDE_ROOK == {63}
ENGINE_QUEENSIDE_ROOK == {7}

\* INITIAL_BOARD[64] with ENGINE_IS_WHITE = true
INITIAL_BOARD == [s \in Squares |->
    CASE s \in {0, 7} -> ENGINE_ROOK
      [] s \in {1, 6} -> ENGINE_KNIGHT
      [] s \in {2, 5} -> ENGINE_BISHOP
      [] s = 3 -> ENGINE_KING
      [] s = 4 -> ENGINE_QUEEN
      [] s \in 8..15 -> ENGINE_PAWN
      [] s \in 48..55 -> PLAYER_PAWN
      [] s \in {56, 63} -> PLAYER_ROOK
      [] s \in {57, 62} -> PLAYER_KNIGHT
      [] s \in {58, 61} -> PLAYER_BISHOP
      [] s = 59 -> PLAYER_KING
      [] s = 60 -> PLAYER_QUEEN
      [] OTHER -> NONE]

\* KNIGHT_MOVES[64]: the table holds, for each square, the knight jumps
KNIGHT_MOVES == [sq \in Squares |->
    {t \in Squares :
        LET dr == Abs((t \div 8) - (sq \div 8))
            dc == Abs((t % 8) - (sq % 8))
        IN  (dr = 1 /\ dc = 2) \/ (dr = 2 /\ dc = 1)}]

\* KING_MOVES[64]: the table holds, for each square, the adjacent squares
KING_MOVES == [sq \in Squares |->
    {t \in Squares :
        /\ t # sq
        /\ Abs((t \div 8) - (sq \div 8)) <= 1
        /\ Abs((t % 8) - (sq % 8)) <= 1}]

----------------------------------------------------------------------------
(* Sequence helpers: the code walks a bitboard with popLeastSquare, that   *)
(* is in ascending square order, and pushes moves on a vector.             *)

RECURSIVE SquaresAscending(_)
SquaresAscending(b) ==
    IF b = {} THEN <<>>
    ELSE LET least == getLeastSquare(b)
         IN  <<least>> \o SquaresAscending(b \ {least})

RECURSIVE Flatten(_)
Flatten(ss) ==
    IF Len(ss) = 0 THEN <<>> ELSE Head(ss) \o Flatten(Tail(ss))

\* the moves pushed while popping the squares of b in ascending order
ForEachSquare(b, Body(_)) ==
    LET order == SquaresAscending(b)
    IN  Flatten([i \in 1..Len(order) |-> Body(order[i])])

Range(s) == {s[i] : i \in 1..Len(s)}

----------------------------------------------------------------------------
(* MoveGen: sliding attacks and the attack tables *)

\* one ray of getRookAttacks / getBishopAttacks: walk from (row, col) in
\* direction (dr, dc) until the edge or a blocker
RECURSIVE RayWalk(_, _, _, _, _, _)
RayWalk(row, col, dr, dc, blockers, captures) ==
    IF ~isOnBoard(row, col) THEN {}
    ELSE LET attack == row * 8 + col
         IN  IF attack \in blockers
             THEN (IF captures THEN {attack} ELSE {})
             ELSE {attack} \cup RayWalk(row + dr, col + dc, dr, dc, blockers, captures)

getRookAttacks(from, blockers, captures) ==
    LET rowFrom == from \div 8
        colFrom == from % 8
    IN  RayWalk(rowFrom - 1, colFrom, -1, 0, blockers, captures)
          \cup RayWalk(rowFrom, colFrom + 1, 0, 1, blockers, captures)
          \cup RayWalk(rowFrom + 1, colFrom, 1, 0, blockers, captures)
          \cup RayWalk(rowFrom, colFrom - 1, 0, -1, blockers, captures)

getBishopAttacks(from, blockers, captures) ==
    LET row == from \div 8
        col == from % 8
    IN  RayWalk(row - 1, col + 1, -1, 1, blockers, captures)
          \cup RayWalk(row + 1, col + 1, 1, 1, blockers, captures)
          \cup RayWalk(row + 1, col - 1, 1, -1, blockers, captures)
          \cup RayWalk(row - 1, col - 1, -1, -1, blockers, captures)

getRookBlockers(from) ==
    LET row == from \div 8
        col == from % 8
        endpoints == {col, row * 8 + 7, 56 + col, from - col}
    IN  getRookAttacks(from, endpoints, FALSE)

getBishopBlockers(from) == getBishopAttacks(from, OUTER_SQUARES, FALSE)

\* cardinals[square].blockers and ordinals[square].blockers, set by MoveGen::MoveGen
cardinals == [square \in Squares |-> [blockers |-> getRookBlockers(square)]]

ordinals == [square \in Squares |-> [blockers |-> getBishopBlockers(square)]]

\* cardinalAttacks[square][blockers * magic >> 52]: getMagicNumber stores at
\* the hash of every blocker permutation the ray walk of that permutation,
\* and accepts a magic only when no two permutations with different attack
\* sets share a hash; blockers is a subset of cardinals[square].blockers
cardinalAttacks(square, blockers) == getRookAttacks(square, blockers, TRUE)

\* ordinalAttacks[square][blockers * magic >> 55], as above
ordinalAttacks(square, blockers) == getBishopAttacks(square, blockers, TRUE)

----------------------------------------------------------------------------
(***************************************************************************)
(* MoveGen::getMagicNumber.  A magic is a 64 bit number, kept like every   *)
(* bitboard as the set of its one bits; blockers * magic is the sum of the *)
(* magic shifted left by every blocker square, modulo 2^64, computed on    *)
(* four 16 bit digits.                                                     *)
(***************************************************************************)

\* the number a set of bit positions below 16 stands for
RECURSIVE digitOf(_)
digitOf(bits) ==
    IF bits = {} THEN 0
    ELSE LET bit == CHOOSE b \in bits : TRUE
         IN  2 ^ bit + digitOf(bits \ {bit})

\* a 64 bit number as four 16 bit digits, the least significant first
digits(bitboard) ==
    [d \in 1..4 |->
        digitOf({s - 16 * (d - 1) : s \in {x \in bitboard : x \div 16 = d - 1}})]

\* magic << blocker for every square of the blocker mask; Shl drops the bits
\* that leave the 64 bit word
shiftedBy(mask, magic) == [blocker \in mask |-> digits(Shl(magic, blocker))]

\* the digit sums of blockers * magic before the carries
RECURSIVE addShifted(_, _)
addShifted(shifted, blockers) ==
    IF blockers = {} THEN <<0, 0, 0, 0>>
    ELSE LET blocker == CHOOSE b \in blockers : TRUE
             rest == addShifted(shifted, blockers \ {blocker})
         IN  [d \in 1..4 |-> shifted[blocker][d] + rest[d]]

\* bits 48..63 of the sum modulo 2^64: the carries run up the digits and
\* the carry out of the last digit is lost
topDigit(sum) ==
    LET carry1 == sum[1] \div 65536
        carry2 == (sum[2] + carry1) \div 65536
        carry3 == (sum[3] + carry2) \div 65536
    IN  (sum[4] + carry3) % 65536

\* the shift of the hash
magicShift(isCardinal) == IF isCardinal THEN 52 ELSE 55

\* blockers * magic >> (isCardinal ? 52 : 55)
magicHash(shifted, blockers, isCardinal) ==
    topDigit(addShifted(shifted, blockers)) \div 2 ^ (magicShift(isCardinal) - 48)

\* the length of a row of cardinalAttacks and of ordinalAttacks
maxPermutations(isCardinal) == IF isCardinal THEN 4096 ELSE 512

\* cardinals[square].blockers or ordinals[square].blockers
blockerMask(square, isCardinal) ==
    IF isCardinal THEN cardinals[square].blockers ELSE ordinals[square].blockers

\* the blocker bitboard of a permutation: bit i of the permutation decides
\* about the i-th square of the mask in ascending order
actualBlockers(order, permutation) ==
    {order[i] : i \in {j \in 1..Len(order) : (permutation \div 2 ^ (j - 1)) % 2 = 1}}

\* the loop over the permutations first..last in one try of getMagicNumber:
\* an unseen hash (attacksSeen 0) remembers the attacks, a hash seen with
\* other attacks sets magic to 0 and breaks
RECURSIVE seePermutations_unchecked(_, _, _, _, _)
seePermutations_unchecked(first, last, hashes, attacks, seen) ==
    IF seen.broke THEN seen
    ELSE IF first = last
    THEN LET hash == hashes[first]
         IN  IF seen.attacksSeen[hash] = {}
             THEN [seen EXCEPT !.attacksSeen[hash] = attacks[first]]
             ELSE seen
    ELSE LET middle == (first + last) \div 2
         IN  seePermutations_unchecked(middle + 1, last, hashes, attacks,
                 seePermutations_unchecked(first, middle, hashes, attacks, seen))

RECURSIVE seePermutations(_, _, _, _, _)
seePermutations(first, last, hashes, attacks, seen) ==
    IF seen.broke THEN seen
    ELSE IF first = last
    THEN LET hash == hashes[first]
         IN  IF seen.attacksSeen[hash] = {}
             THEN [seen EXCEPT !.attacksSeen[hash] = attacks[first]]
             ELSE IF seen.attacksSeen[hash] # attacks[first]
             THEN [seen EXCEPT !.magic = {}, !.broke = TRUE]
             ELSE seen
    ELSE LET middle == (first + last) \div 2
         IN  seePermutations(middle + 1, last, hashes, attacks,
                 seePermutations(first, middle, hashes, attacks, seen))

\* one pass of the while loop of getMagicNumber with the magic it drew: the
\* magic left at the end of the pass (0 after a collision) and attacksSeen
tryMagic(square, isCardinal, magic) ==
    LET mask == blockerMask(square, isCardinal)
        order == SquaresAscending(mask)
        numPermutations == 2 ^ countSetBits(mask)
        shifted == shiftedBy(mask, magic)
        blockers == [permutation \in 0..numPermutations - 1 |->
                        actualBlockers(order, permutation)]
        attacks == [permutation \in 0..numPermutations - 1 |->
                       IF isCardinal
                       THEN getRookAttacks(square, blockers[permutation], TRUE)
                       ELSE getBishopAttacks(square, blockers[permutation], TRUE)]
        hashes == [permutation \in 0..numPermutations - 1 |->
                      magicHash(shifted, blockers[permutation], isCardinal)]
    IN  seePermutations(0, numPermutations - 1, hashes, attacks,
            [magic |-> magic, broke |-> FALSE,
             attacksSeen |-> [i \in 0..maxPermutations(isCardinal) - 1 |-> {}]])

\* random64() & random64() & random64(): two of the numbers a draw for the
\* rook of a square can give, square 0 first
CardinalDraws == <<
    <<{14, 31, 37, 44, 55}, {22, 29, 47, 54}>>,
    <<{13, 22, 36, 54}, {20, 35, 53}>>,
    <<{11, 29, 42, 53}, {19, 34, 53}>>,
    <<{10, 19, 25, 36, 52}, {20, 35, 50, 52}>>,
    <<{1, 15, 27, 42, 55}, {19, 25, 40, 53}>>,
    <<{10, 25, 39, 55}, {18, 31, 40, 55}>>,
    <<{7, 22, 40, 54, 55}, {14, 33, 48, 55}>>,
    <<{8, 14, 21, 39, 55, 56}, {15, 30, 48, 54}>>,
    <<{13, 28, 45, 46}, {22, 31, 47}>>,
    <<{11, 28, 45}, {21, 38, 48}>>,
    <<{11, 26, 45}, {18, 37, 45}>>,
    <<{9, 20, 34, 44}, {19, 34, 43}>>,
    <<{10, 25, 43, 46}, {18, 33, 46}>>,
    <<{0, 15, 34, 47}, {15, 32, 45}>>,
    <<{7, 14, 33, 47}, {16, 31, 46}>>,
    <<{7, 24, 30, 47}, {15, 32, 47}>>,
    <<{13, 22, 38, 44}, {22, 36, 44}>>,
    <<{12, 19, 38, 46}, {19, 37, 54}>>,
    <<{5, 18, 37, 52}, {21, 36, 42}>>,
    <<{12, 26, 34, 41}, {19, 36, 41}>>,
    <<{8, 25, 37, 45}, {17, 32, 40}>>,
    <<{10, 25, 39}, {16, 34, 41}>>,
    <<{8, 23, 38}, {17, 24, 38}>>,
    <<{6, 21, 37, 47}, {13, 32, 38}>>,
    <<{15, 29, 36, 45}, {15, 31, 46}>>,
    <<{13, 30, 44}, {22, 30, 45}>>,
    <<{11, 29, 42}, {21, 28, 42}>>,
    <<{12, 24, 31, 43}, {20, 31, 43}>>,
    <<{11, 24, 32, 49}, {17, 30, 42}>>,
    <<{10, 16, 31, 47}, {18, 32, 43}>>,
    <<{7, 16, 30, 39}, {15, 30, 40}>>,
    <<{8, 13, 31, 38}, {15, 30, 48}>>,
    <<{14, 23, 39, 44}, {22, 37, 55}>>,
    <<{10, 20, 35, 54}, {22, 30, 44}>>,
    <<{6, 16, 26, 45}, {19, 36, 43}>>,
    <<{10, 21, 33, 52}, {20, 28, 41}>>,
    <<{1, 10, 24, 43}, {9, 24, 43}>>,
    <<{10, 23, 41}, {18, 29, 39}>>,
    <<{8, 23, 41}, {7, 24, 41}>>,
    <<{8, 19, 22, 39}, {16, 22, 37}>>,
    <<{14, 29, 36, 55}, {15, 31, 46}>>,
    <<{13, 28, 43}, {13, 27, 45}>>,
    <<{13, 27, 42}, {14, 28, 43}>>,
    <<{11, 17, 34, 52}, {15, 27, 44}>>,
    <<{11, 17, 32, 49}, {14, 26, 41}>>,
    <<{8, 15, 24, 42}, {15, 31, 42}>>,
    <<{0, 15, 33, 47}, {16, 25, 40}>>,
    <<{8, 13, 31, 38}, {14, 22, 39}>>,
    <<{7, 22, 39, 44}, {7, 23, 28, 45}>>,
    <<{6, 20, 37, 54}, {6, 19, 38, 52}>>,
    <<{5, 18, 37, 43}, {7, 19, 26, 44}>>,
    <<{4, 11, 28, 41}, {9, 18, 30, 44}>>,
    <<{8, 16, 35, 41}, {8, 26, 43}>>,
    <<{7, 26, 41}, {8, 25, 42}>>,
    <<{7, 24, 41}, {8, 25, 39}>>,
    <<{3, 12, 21, 39}, {7, 24, 38}>>,
    <<{0, 6, 23, 32, 36, 45}, {0, 15, 24, 28, 46}>>,
    <<{0, 4, 13, 24, 27, 46}, {0, 7, 21, 28, 46}>>,
    <<{0, 3, 14, 29, 36, 42}, {0, 3, 20, 37, 48}>>,
    <<{0, 3, 10, 21, 25, 44}, {1, 17, 27, 44}>>,
    <<{0, 19, 32, 34, 44}, {0, 18, 35, 48}>>,
    <<{0, 18, 25, 31, 43}, {0, 16, 25, 42}>>,
    <<{1, 10, 19, 23, 30, 49}, {0, 10, 23, 41}>>,
    <<{1, 7, 13, 26, 30, 33, 40}, {0, 16, 22, 39}>>>>

\* two of the numbers a draw for the bishop of a square can give
OrdinalDraws == <<
    <<{9, 17, 22, 29, 41, 52}, {16, 26, 29, 39, 46}>>,
    <<{9, 23, 30, 40, 51}, {22, 35, 41, 46}>>,
    <<{24, 27, 37, 52}, {29, 43, 46}>>,
    <<{25, 42, 50}, {38, 46}>>,
    <<{38, 48}, {37, 49}>>,
    <<{30, 43}, {32, 43}>>,
    <<{22, 35, 46}, {28, 43}>>,
    <<{14, 27, 38, 43}, {15, 28, 41}>>,
    <<{4, 17, 23, 30, 43}, {18, 28, 34, 42}>>,
    <<{2, 14, 25, 28, 44}, {12, 20, 36, 42}>>,
    <<{15, 18, 35, 43}, {18, 35, 42}>>,
    <<{20, 30, 43}, {30, 37}>>,
    <<{26, 36}, {32, 40}>>,
    <<{22, 35}, {28, 36}>>,
    <<{13, 24, 35}, {20, 35}>>,
    <<{12, 25, 34}, {19, 34}>>,
    <<{8, 19, 29, 33, 48}, {17, 22, 34, 54}>>,
    <<{6, 12, 25, 29, 47}, {11, 23, 35, 52}>>,
    <<{2, 15, 27, 34, 46}, {17, 20, 36, 49}>>,
    <<{16, 24, 30, 47}, {18, 30, 50}>>,
    <<{21, 34, 47}, {24, 28, 48}>>,
    <<{14, 27, 47}, {19, 27, 44}>>,
    <<{13, 26, 45}, {20, 33, 44}>>,
    <<{11, 26, 44}, {14, 26, 41}>>,
    <<{6, 18, 30, 45}, {18, 30, 45}>>,
    <<{8, 16, 28, 45}, {20, 22, 44}>>,
    <<{6, 13, 28, 43}, {12, 26, 43}>>,
    <<{5, 17, 21, 43, 51}, {11, 21, 40, 50}>>,
    <<{14, 18, 22, 40, 48}, {16, 26, 36, 46}>>,
    <<{12, 23, 36, 46}, {20, 40, 46}>>,
    <<{8, 19, 34, 48}, {18, 35, 47}>>,
    <<{4, 17, 35, 50}, {18, 37, 44}>>,
    <<{11, 18, 38, 51}, {14, 36, 45}>>,
    <<{12, 14, 33, 43}, {18, 36, 45}>>,
    <<{10, 14, 34, 43}, {16, 31, 42}>>,
    <<{7, 19, 26, 31, 41}, {13, 32, 42}>>,
    <<{2, 12, 31, 41, 52}, {12, 32, 38, 54}>>,
    <<{12, 31, 41, 45}, {16, 29, 39, 45}>>,
    <<{10, 30, 40, 52}, {18, 27, 35, 51}>>,
    <<{9, 27, 35, 47}, {14, 26, 38, 46}>>,
    <<{8, 30, 43}, {29, 44}>>,
    <<{9, 29, 42}, {28, 43}>>,
    <<{8, 27, 42}, {11, 28, 41}>>,
    <<{11, 26, 34}, {12, 21, 34}>>,
    <<{6, 25, 30, 46}, {4, 23, 31, 39}>>,
    <<{3, 20, 34, 41, 51}, {4, 24, 31, 41, 48}>>,
    <<{4, 26, 30, 37, 50}, {18, 29, 44, 48}>>,
    <<{4, 23, 28, 36, 49}, {25, 30, 36, 49}>>,
    <<{22, 35, 44}, {28, 43}>>,
    <<{19, 27, 42}, {27, 42}>>,
    <<{20, 33}, {21, 34}>>,
    <<{17, 25}, {18, 29}>>,
    <<{17, 23, 30}, {15, 21, 35}>>,
    <<{17, 20, 33, 39}, {16, 28, 33, 45}>>,
    <<{10, 20, 34, 45, 50}, {26, 36, 40, 46}>>,
    <<{12, 20, 31, 43, 46}, {26, 28, 42, 45}>>,
    <<{12, 21, 32, 41}, {21, 31, 41}>>,
    <<{10, 20, 33}, {19, 34}>>,
    <<{12, 25}, {14, 25}>>,
    <<{11, 19}, {12, 22}>>,
    <<{10, 15, 29}, {10, 20, 30}>>,
    <<{8, 20, 25, 31}, {3, 14, 24, 35}>>,
    <<{6, 19, 22, 30, 45}, {12, 26, 34, 38}>>,
    <<{3, 16, 20, 28, 44, 50}, {16, 19, 33, 40, 53}>>>>

\* the magics the model draws for a square: the two above and 0
Draws(square, isCardinal) ==
    {{}} \cup Range(IF isCardinal THEN CardinalDraws[square + 1]
                    ELSE OrdinalDraws[square + 1])

----------------------------------------------------------------------------
(* Board *)

Xor(a, b) == (a \ b) \cup (b \ a)

\* update with the engine king left out of enginePieces
update_withoutKing(board) ==
    LET pieces == board.position.pieces
        engine == pieces[ENGINE_PAWN] \cup pieces[ENGINE_KNIGHT] \cup
                  pieces[ENGINE_BISHOP] \cup pieces[ENGINE_ROOK] \cup
                  pieces[ENGINE_QUEEN]
        player == pieces[PLAYER_PAWN] \cup pieces[PLAYER_KNIGHT] \cup
                  pieces[PLAYER_BISHOP] \cup pieces[PLAYER_ROOK] \cup
                  pieces[PLAYER_QUEEN] \cup pieces[PLAYER_KING]
        occupied == engine \cup player
        empty == Not(occupied)
    IN  [board EXCEPT !.enginePieces = engine,
                      !.playerPieces = player,
                      !.occupiedSquares = occupied,
                      !.emptySquares = empty,
                      !.playerOrEmpty = player \cup empty,
                      !.engineOrEmpty = engine \cup empty]

\* Board::update applied to a board record
update(board) ==
    LET pieces == board.position.pieces
        engine == pieces[ENGINE_PAWN] \cup pieces[ENGINE_KNIGHT] \cup
                  pieces[ENGINE_BISHOP] \cup pieces[ENGINE_ROOK] \cup
                  pieces[ENGINE_QUEEN] \cup pieces[ENGINE_KING]
        player == pieces[PLAYER_PAWN] \cup pieces[PLAYER_KNIGHT] \cup
                  pieces[PLAYER_BISHOP] \cup pieces[PLAYER_ROOK] \cup
                  pieces[PLAYER_QUEEN] \cup pieces[PLAYER_KING]
        occupied == engine \cup player
        empty == Not(occupied)
    IN  [board EXCEPT !.enginePieces = engine,
                      !.playerPieces = player,
                      !.occupiedSquares = occupied,
                      !.emptySquares = empty,
                      !.playerOrEmpty = player \cup empty,
                      !.engineOrEmpty = engine \cup empty]

\* Board::Board
NewBoard ==
    update([position |->
               [pieces |-> [p \in PieceTypes |-> {s \in Squares : INITIAL_BOARD[s] = p}],
                playerCastleQueenside |-> TRUE,
                playerCastleKingside |-> TRUE,
                engineCastleQueenside |-> TRUE,
                engineCastleKingside |-> TRUE,
                enPassantCapture |-> {}],
            engineToMove |-> TRUE,
            enginePieces |-> {}, playerOrEmpty |-> {}, playerPieces |-> {},
            engineOrEmpty |-> {}, emptySquares |-> {}, occupiedSquares |-> {}])

\* the result of a failed assert(false)
ASSERT_FAILED == 0 - 1

\* Board::getPlayerPieceType
getPlayerPieceType(board, square) ==
    IF board.emptySquares \cap boardOf(square) # {} THEN NONE
    ELSE LET found == {type \in PLAYER_PAWN..PLAYER_KING :
                          board.position.pieces[type] \cap boardOf(square) # {}}
         IN  IF found = {} THEN ASSERT_FAILED
             ELSE CHOOSE type \in found : \A other \in found : type <= other

\* Board::getEnginePieceType
getEnginePieceType(board, square) ==
    IF board.emptySquares \cap boardOf(square) # {} THEN NONE
    ELSE LET found == {type \in ENGINE_PAWN..ENGINE_KING :
                          board.position.pieces[type] \cap boardOf(square) # {}}
         IN  IF found = {} THEN ASSERT_FAILED
             ELSE CHOOSE type \in found : \A other \in found : type <= other

\* Board::getPieceType
getPieceType(board, square) ==
    IF board.emptySquares \cap boardOf(square) # {} THEN NONE
    ELSE IF board.playerPieces \cap boardOf(square) # {} THEN getPlayerPieceType(board, square)
    ELSE IF board.enginePieces \cap boardOf(square) # {} THEN getEnginePieceType(board, square)
    ELSE ASSERT_FAILED

\* makeMove: remove the moving piece from its square and place it, or the
\* piece it promotes to, on the destination
placeMoving(pieces, move, isEngine) ==
    LET squareTo == boardOf(move.to)
        squareFrom == boardOf(move.from)
        lifted == [pieces EXCEPT ![move.moving] = Xor(@, squareFrom)]
        promoted ==
            CASE move.type = QUEEN_PROMOTION -> IF isEngine THEN ENGINE_QUEEN ELSE PLAYER_QUEEN
              [] move.type = ROOK_PROMOTION -> IF isEngine THEN ENGINE_ROOK ELSE PLAYER_ROOK
              [] move.type = BISHOP_PROMOTION -> IF isEngine THEN ENGINE_BISHOP ELSE PLAYER_BISHOP
              [] move.type = KNIGHT_PROMOTION -> IF isEngine THEN ENGINE_KNIGHT ELSE PLAYER_KNIGHT
              [] OTHER -> move.moving
    IN  [lifted EXCEPT ![promoted] = @ \cup squareTo]

\* removeCaptured with the en passant capture taken off the destination square
removeCaptured_atDestination(pieces, move, enPassant) ==
    IF move.captured # NONE
    THEN [pieces EXCEPT ![move.captured] = Xor(@, boardOf(move.to))]
    ELSE pieces

\* makeMove: remove the captured piece
removeCaptured(pieces, move, enPassant) ==
    IF move.captured # NONE
    THEN [pieces EXCEPT ![move.captured] =
             Xor(@, IF move.type = EN_PASSANT THEN enPassant ELSE boardOf(move.to))]
    ELSE pieces

\* rightsAfterCapture with both rights lost for a rook taken on either corner
rightsAfterCapture_bothWings(position, move, isEngine) ==
    LET squareTo == boardOf(move.to)
        rookCaptured == move.captured # NONE
                          /\ move.captured = (IF isEngine THEN PLAYER_ROOK ELSE ENGINE_ROOK)
        kingsideRook == IF isEngine THEN PLAYER_KINGSIDE_ROOK ELSE ENGINE_KINGSIDE_ROOK
        queensideRook == IF isEngine THEN PLAYER_QUEENSIDE_ROOK ELSE ENGINE_QUEENSIDE_ROOK
        loseKingside == rookCaptured /\ squareTo \cap (kingsideRook \cup queensideRook) # {}
        loseQueenside == rookCaptured /\ squareTo \cap (kingsideRook \cup queensideRook) # {}
    IN  IF isEngine
        THEN [position EXCEPT
                 !.playerCastleKingside = @ /\ ~loseKingside,
                 !.playerCastleQueenside = @ /\ ~loseQueenside]
        ELSE [position EXCEPT
                 !.engineCastleKingside = @ /\ ~loseKingside,
                 !.engineCastleQueenside = @ /\ ~loseQueenside]

\* makeMove: the castling rights left to the opponent after a capture
rightsAfterCapture(position, move, isEngine) ==
    LET squareTo == boardOf(move.to)
        rookCaptured == move.captured # NONE
                          /\ move.captured = (IF isEngine THEN PLAYER_ROOK ELSE ENGINE_ROOK)
        kingsideRook == IF isEngine THEN PLAYER_KINGSIDE_ROOK ELSE ENGINE_KINGSIDE_ROOK
        queensideRook == IF isEngine THEN PLAYER_QUEENSIDE_ROOK ELSE ENGINE_QUEENSIDE_ROOK
        loseKingside == rookCaptured /\ squareTo \cap kingsideRook # {}
        loseQueenside == rookCaptured /\ squareTo \cap queensideRook # {}
    IN  IF isEngine
        THEN [position EXCEPT
                 !.playerCastleKingside = @ /\ ~loseKingside,
                 !.playerCastleQueenside = @ /\ ~loseQueenside]
        ELSE [position EXCEPT
                 !.engineCastleKingside = @ /\ ~loseKingside,
                 !.engineCastleQueenside = @ /\ ~loseQueenside]

\* kingMoved with the rook leg of castling made on the bitboard of the king
kingMoved_onKingBoard(position, move, isEngine) ==
    LET squareTo == boardOf(move.to)
        rook == IF isEngine THEN ENGINE_KING ELSE PLAYER_KING
        anyRight == IF isEngine
                    THEN position.engineCastleKingside \/ position.engineCastleQueenside
                    ELSE position.playerCastleKingside \/ position.playerCastleQueenside
        kingside == squareTo \cap
            (IF isEngine THEN ENGINE_KINGSIDE_DESTINATION ELSE PLAYER_KINGSIDE_DESTINATION) # {}
        queenside == squareTo \cap
            (IF isEngine THEN ENGINE_QUEENSIDE_DESTINATION ELSE PLAYER_QUEENSIDE_DESTINATION) # {}
        afterKingside ==
            IF kingside
            THEN [position.pieces EXCEPT ![rook] =
                     Xor(@, IF isEngine THEN ENGINE_KINGSIDE_ROOK ELSE PLAYER_KINGSIDE_ROOK)
                        \cup Shl(squareTo, 1)]
            ELSE position.pieces
        afterQueenside ==
            IF queenside
            THEN [afterKingside EXCEPT ![rook] =
                     Xor(@, IF isEngine THEN ENGINE_QUEENSIDE_ROOK ELSE PLAYER_QUEENSIDE_ROOK)
                        \cup Shr(squareTo, 1)]
            ELSE afterKingside
    IN  IF ~anyRight THEN position
        ELSE IF isEngine
        THEN [position EXCEPT !.pieces = afterQueenside,
                              !.engineCastleKingside = FALSE,
                              !.engineCastleQueenside = FALSE]
        ELSE [position EXCEPT !.pieces = afterQueenside,
                              !.playerCastleKingside = FALSE,
                              !.playerCastleQueenside = FALSE]

\* kingMoved with the rook put down on the far side of the castled king
kingMoved_rookOutside(position, move, isEngine) ==
    LET squareTo == boardOf(move.to)
        rook == IF isEngine THEN ENGINE_ROOK ELSE PLAYER_ROOK
        anyRight == IF isEngine
                    THEN position.engineCastleKingside \/ position.engineCastleQueenside
                    ELSE position.playerCastleKingside \/ position.playerCastleQueenside
        kingside == squareTo \cap
            (IF isEngine THEN ENGINE_KINGSIDE_DESTINATION ELSE PLAYER_KINGSIDE_DESTINATION) # {}
        queenside == squareTo \cap
            (IF isEngine THEN ENGINE_QUEENSIDE_DESTINATION ELSE PLAYER_QUEENSIDE_DESTINATION) # {}
        afterKingside ==
            IF kingside
            THEN [position.pieces EXCEPT ![rook] =
                     Xor(@, IF isEngine THEN ENGINE_KINGSIDE_ROOK ELSE PLAYER_KINGSIDE_ROOK)
                        \cup Shr(squareTo, 1)]
            ELSE position.pieces
        afterQueenside ==
            IF queenside
            THEN [afterKingside EXCEPT ![rook] =
                     Xor(@, IF isEngine THEN ENGINE_QUEENSIDE_ROOK ELSE PLAYER_QUEENSIDE_ROOK)
                        \cup Shl(squareTo, 1)]
            ELSE afterKingside
    IN  IF ~anyRight THEN position
        ELSE IF isEngine
        THEN [position EXCEPT !.pieces = afterQueenside,
                              !.engineCastleKingside = FALSE,
                              !.engineCastleQueenside = FALSE]
        ELSE [position EXCEPT !.pieces = afterQueenside,
                              !.playerCastleKingside = FALSE,
                              !.playerCastleQueenside = FALSE]

\* makeMove: a king move; the rook leg of castling and the loss of both rights
kingMoved(position, move, isEngine) ==
    LET squareTo == boardOf(move.to)
        rook == IF isEngine THEN ENGINE_ROOK ELSE PLAYER_ROOK
        anyRight == IF isEngine
                    THEN position.engineCastleKingside \/ position.engineCastleQueenside
                    ELSE position.playerCastleKingside \/ position.playerCastleQueenside
        kingside == squareTo \cap
            (IF isEngine THEN ENGINE_KINGSIDE_DESTINATION ELSE PLAYER_KINGSIDE_DESTINATION) # {}
        queenside == squareTo \cap
            (IF isEngine THEN ENGINE_QUEENSIDE_DESTINATION ELSE PLAYER_QUEENSIDE_DESTINATION) # {}
        afterKingside ==
            IF kingside
            THEN [position.pieces EXCEPT ![rook] =
                     Xor(@, IF isEngine THEN ENGINE_KINGSIDE_ROOK ELSE PLAYER_KINGSIDE_ROOK)
                        \cup Shl(squareTo, 1)]
            ELSE position.pieces
        afterQueenside ==
            IF queenside
            THEN [afterKingside EXCEPT ![rook] =
                     Xor(@, IF isEngine THEN ENGINE_QUEENSIDE_ROOK ELSE PLAYER_QUEENSIDE_ROOK)
                        \cup Shr(squareTo, 1)]
            ELSE afterKingside
    IN  IF ~anyRight THEN position
        ELSE IF isEngine
        THEN [position EXCEPT !.pieces = afterQueenside,
                              !.engineCastleKingside = FALSE,
                              !.engineCastleQueenside = FALSE]
        ELSE [position EXCEPT !.pieces = afterQueenside,
                              !.playerCastleKingside = FALSE,
                              !.playerCastleQueenside = FALSE]

\* rookMoved that writes each right from the corner the rook left
rookMoved_assigned(position, move, isEngine) ==
    LET squareFrom == boardOf(move.from)
        leftKingside == squareFrom \cap
            (IF isEngine THEN ENGINE_KINGSIDE_ROOK ELSE PLAYER_KINGSIDE_ROOK) # {}
        leftQueenside == squareFrom \cap
            (IF isEngine THEN ENGINE_QUEENSIDE_ROOK ELSE PLAYER_QUEENSIDE_ROOK) # {}
    IN  IF isEngine
        THEN [position EXCEPT
                 !.engineCastleKingside = ~leftKingside,
                 !.engineCastleQueenside = ~leftQueenside]
        ELSE [position EXCEPT
                 !.playerCastleKingside = ~leftKingside,
                 !.playerCastleQueenside = ~leftQueenside]

\* rookMoved with no look at the kingside corner
rookMoved_queensideOnly(position, move, isEngine) ==
    LET squareFrom == boardOf(move.from)
        leftQueenside == squareFrom \cap
            (IF isEngine THEN ENGINE_QUEENSIDE_ROOK ELSE PLAYER_QUEENSIDE_ROOK) # {}
    IN  IF isEngine
        THEN [position EXCEPT !.engineCastleQueenside = @ /\ ~leftQueenside]
        ELSE [position EXCEPT !.playerCastleQueenside = @ /\ ~leftQueenside]

\* makeMove: a rook move; the loss of the right of the corner it left
rookMoved(position, move, isEngine) ==
    LET squareFrom == boardOf(move.from)
        leftKingside == squareFrom \cap
            (IF isEngine THEN ENGINE_KINGSIDE_ROOK ELSE PLAYER_KINGSIDE_ROOK) # {}
        leftQueenside == squareFrom \cap
            (IF isEngine THEN ENGINE_QUEENSIDE_ROOK ELSE PLAYER_QUEENSIDE_ROOK) # {}
    IN  IF isEngine
        THEN [position EXCEPT
                 !.engineCastleKingside = @ /\ ~leftKingside,
                 !.engineCastleQueenside = @ /\ ~leftQueenside]
        ELSE [position EXCEPT
                 !.playerCastleKingside = @ /\ ~leftKingside,
                 !.playerCastleQueenside = @ /\ ~leftQueenside]

\* pawnMoved with no look at the pawns beside the destination
pawnMoved_anyDoublePush(position, move, isEngine) ==
    IF Abs(move.to - move.from) = 16
    THEN [position EXCEPT !.enPassantCapture = boardOf(move.to)]
    ELSE position

\* makeMove: a pawn move; the en passant square it leaves behind
pawnMoved(position, move, isEngine) ==
    LET squareTo == boardOf(move.to)
        beside == (Shl(squareTo, 1) \cup Shr(squareTo, 1))
                     \cap (IF isEngine THEN RANK3 ELSE RANK4)
                     \cap position.pieces[IF isEngine THEN PLAYER_PAWN ELSE ENGINE_PAWN]
    IN  IF Abs(move.to - move.from) = 16 /\ beside # {}
        THEN [position EXCEPT !.enPassantCapture = squareTo]
        ELSE position

\* makeMove that leaves the derived masks as they were
makeMove_withoutUpdate(board, move, isEngine) ==
    LET enPassant == board.position.enPassantCapture
        cleared == [board.position EXCEPT !.enPassantCapture = {}]
        placed == [cleared EXCEPT !.pieces = placeMoving(@, move, isEngine)]
        captured == rightsAfterCapture(
                        [placed EXCEPT !.pieces = removeCaptured(@, move, enPassant)],
                        move, isEngine)
        special ==
            IF move.moving = (IF isEngine THEN ENGINE_KING ELSE PLAYER_KING)
            THEN kingMoved(captured, move, isEngine)
            ELSE IF move.moving = (IF isEngine THEN ENGINE_ROOK ELSE PLAYER_ROOK)
            THEN rookMoved(captured, move, isEngine)
            ELSE IF move.moving = (IF isEngine THEN ENGINE_PAWN ELSE PLAYER_PAWN)
            THEN pawnMoved(captured, move, isEngine)
            ELSE captured
        updated == [board EXCEPT !.position = special]
    IN  [updated EXCEPT !.engineToMove = ~board.engineToMove]

\* Board::makeMove<isEngine>
makeMove(board, move, isEngine) ==
    LET enPassant == board.position.enPassantCapture
        cleared == [board.position EXCEPT !.enPassantCapture = {}]
        placed == [cleared EXCEPT !.pieces = placeMoving(@, move, isEngine)]
        captured == rightsAfterCapture(
                        [placed EXCEPT !.pieces = removeCaptured(@, move, enPassant)],
                        move, isEngine)
        special ==
            IF move.moving = (IF isEngine THEN ENGINE_KING ELSE PLAYER_KING)
            THEN kingMoved(captured, move, isEngine)
            ELSE IF move.moving = (IF isEngine THEN ENGINE_ROOK ELSE PLAYER_ROOK)
            THEN rookMoved(captured, move, isEngine)
            ELSE IF move.moving = (IF isEngine THEN ENGINE_PAWN ELSE PLAYER_PAWN)
            THEN pawnMoved(captured, move, isEngine)
            ELSE captured
        updated == update([board EXCEPT !.position = special])
    IN  [updated EXCEPT !.engineToMove = ~board.engineToMove]

----------------------------------------------------------------------------
(* MoveGen: check, pins and square safety *)

Move(type, from, to, moving, captured) ==
    [type |-> type, from |-> from, to |-> to, moving |-> moving, captured |-> captured]

\* MoveGen::isSafeSquare<isEngine>
isSafeSquare(board, square, isEngine) ==
    LET pieces == board.position.pieces
        attacked == boardOf(square)
        king == pieces[IF isEngine THEN ENGINE_KING ELSE PLAYER_KING]
        cardinalBlockers == (board.occupiedSquares \cap cardinals[square].blockers) \cap Not(king)
        ordinalBlockers == (board.occupiedSquares \cap ordinals[square].blockers) \cap Not(king)
        cardinalAttackers == cardinalAttacks(square, cardinalBlockers) \cap
            (IF isEngine THEN pieces[PLAYER_QUEEN] \cup pieces[PLAYER_ROOK]
                         ELSE pieces[ENGINE_QUEEN] \cup pieces[ENGINE_ROOK])
        ordinalAttackers == ordinalAttacks(square, ordinalBlockers) \cap
            (IF isEngine THEN pieces[PLAYER_QUEEN] \cup pieces[PLAYER_BISHOP]
                         ELSE pieces[ENGINE_QUEEN] \cup pieces[ENGINE_BISHOP])
        knights == KNIGHT_MOVES[square] \cap
            (IF isEngine THEN pieces[PLAYER_KNIGHT] ELSE pieces[ENGINE_KNIGHT])
        kings == KING_MOVES[square] \cap
            (IF isEngine THEN pieces[PLAYER_KING] ELSE pieces[ENGINE_KING])
        leftPawns == IF isEngine
                     THEN Shl(attacked \cap Not(FILE7), 9) \cap pieces[PLAYER_PAWN]
                     ELSE Shr(attacked \cap Not(FILE0), 9) \cap pieces[ENGINE_PAWN]
        rightPawns == IF isEngine
                      THEN Shl(attacked \cap Not(FILE0), 7) \cap pieces[PLAYER_PAWN]
                      ELSE Shr(attacked \cap Not(FILE7), 7) \cap pieces[ENGINE_PAWN]
        attackers == cardinalAttackers \cup ordinalAttackers \cup knights \cup kings
                        \cup leftPawns \cup rightPawns
    IN  attackers = {}

\* MoveGen::isKingInCheck
isKingInCheck(board, isEngine) ==
    IF isEngine
    THEN ~isSafeSquare(board, getLeastSquare(board.position.pieces[ENGINE_KING]), TRUE)
    ELSE ~isSafeSquare(board, getLeastSquare(board.position.pieces[PLAYER_KING]), FALSE)

\* getBlockerSquares with the capture of a checker allowed in double check
getBlockerSquares_capturing(board, isEngine) ==
    LET pieces == board.position.pieces
        king == IF isEngine THEN pieces[ENGINE_KING] ELSE pieces[PLAYER_KING]
        kingSquare == getLeastSquare(king)
        cardinalBlockers == board.occupiedSquares \cap cardinals[kingSquare].blockers
        ordinalBlockers == board.occupiedSquares \cap ordinals[kingSquare].blockers
        cardinalAttackRays == cardinalAttacks(kingSquare, cardinalBlockers)
        ordinalAttackRays == ordinalAttacks(kingSquare, ordinalBlockers)
        cardinalAttackers == cardinalAttackRays \cap
            (IF isEngine THEN pieces[PLAYER_QUEEN] \cup pieces[PLAYER_ROOK]
                         ELSE pieces[ENGINE_QUEEN] \cup pieces[ENGINE_ROOK])
        ordinalAttackers == ordinalAttackRays \cap
            (IF isEngine THEN pieces[PLAYER_QUEEN] \cup pieces[PLAYER_BISHOP]
                         ELSE pieces[ENGINE_QUEEN] \cup pieces[ENGINE_BISHOP])
        attackers == cardinalAttackers \cup ordinalAttackers
            \cup (KNIGHT_MOVES[kingSquare] \cap
                    (IF isEngine THEN pieces[PLAYER_KNIGHT] ELSE pieces[ENGINE_KNIGHT]))
            \cup (IF isEngine
                  THEN Shl(king \cap Not(FILE7), 9) \cap pieces[PLAYER_PAWN]
                  ELSE Shr(king \cap Not(FILE0), 9) \cap pieces[ENGINE_PAWN])
            \cup (IF isEngine
                  THEN Shl(king \cap Not(FILE0), 7) \cap pieces[PLAYER_PAWN]
                  ELSE Shr(king \cap Not(FILE7), 7) \cap pieces[ENGINE_PAWN])
    IN  IF attackers = {} THEN FILLED_BOARD
        ELSE IF countSetBits(attackers) = 1
        THEN IF cardinalAttackers # {}
             THEN LET attacker == getLeastSquare(cardinalAttackers)
                      blockers == board.occupiedSquares \cap cardinals[attacker].blockers
                  IN  (cardinalAttackRays \cap cardinalAttacks(attacker, blockers)) \cup attackers
             ELSE IF ordinalAttackers # {}
             THEN LET attacker == getLeastSquare(ordinalAttackers)
                      blockers == board.occupiedSquares \cap ordinals[attacker].blockers
                  IN  (ordinalAttackRays \cap ordinalAttacks(attacker, blockers)) \cup attackers
             ELSE attackers
        ELSE attackers

\* MoveGen::getBlockerSquares<isEngine>: the new value of blockerSquares
getBlockerSquares(board, isEngine) ==
    LET pieces == board.position.pieces
        king == IF isEngine THEN pieces[ENGINE_KING] ELSE pieces[PLAYER_KING]
        kingSquare == getLeastSquare(king)
        cardinalBlockers == board.occupiedSquares \cap cardinals[kingSquare].blockers
        ordinalBlockers == board.occupiedSquares \cap ordinals[kingSquare].blockers
        cardinalAttackRays == cardinalAttacks(kingSquare, cardinalBlockers)
        ordinalAttackRays == ordinalAttacks(kingSquare, ordinalBlockers)
        cardinalAttackers == cardinalAttackRays \cap
            (IF isEngine THEN pieces[PLAYER_QUEEN] \cup pieces[PLAYER_ROOK]
                         ELSE pieces[ENGINE_QUEEN] \cup pieces[ENGINE_ROOK])
        ordinalAttackers == ordinalAttackRays \cap
            (IF isEngine THEN pieces[PLAYER_QUEEN] \cup pieces[PLAYER_BISHOP]
                         ELSE pieces[ENGINE_QUEEN] \cup pieces[ENGINE_BISHOP])
        attackers == cardinalAttackers \cup ordinalAttackers
            \cup (KNIGHT_MOVES[kingSquare] \cap
                    (IF isEngine THEN pieces[PLAYER_KNIGHT] ELSE pieces[ENGINE_KNIGHT]))
            \cup (IF isEngine
                  THEN Shl(king \cap Not(FILE7), 9) \cap pieces[PLAYER_PAWN]
                  ELSE Shr(king \cap Not(FILE0), 9) \cap pieces[ENGINE_PAWN])
            \cup (IF isEngine
                  THEN Shl(king \cap Not(FILE0), 7) \cap pieces[PLAYER_PAWN]
                  ELSE Shr(king \cap Not(FILE7), 7) \cap pieces[ENGINE_PAWN])
    IN  IF attackers = {} THEN FILLED_BOARD
        ELSE IF countSetBits(attackers) = 1
        THEN IF cardinalAttackers # {}
             THEN LET attacker == getLeastSquare(cardinalAttackers)
                      blockers == board.occupiedSquares \cap cardinals[attacker].blockers
                  IN  (cardinalAttackRays \cap cardinalAttacks(attacker, blockers)) \cup attackers
             ELSE IF ordinalAttackers # {}
             THEN LET attacker == getLeastSquare(ordinalAttackers)
                      blockers == board.occupiedSquares \cap ordinals[attacker].blockers
                  IN  (ordinalAttackRays \cap ordinalAttacks(attacker, blockers)) \cup attackers
             ELSE attackers
        ELSE {}

\* MoveGen::getOrdinalPins<isEngine>: the new value of ordinalPins
getOrdinalPins(board, isEngine) ==
    LET pieces == board.position.pieces
        king == getLeastSquare(pieces[IF isEngine THEN ENGINE_KING ELSE PLAYER_KING])
        ordinalBlockers == board.occupiedSquares \cap ordinals[king].blockers
        possiblyPinned == ordinalAttacks(king, ordinalBlockers) \cap
            (IF isEngine THEN board.enginePieces ELSE board.playerPieces)
        pins == ordinalAttacks(king, ordinalBlockers \cap Not(possiblyPinned))
        pinning == pins \cap
            (IF isEngine THEN pieces[PLAYER_QUEEN] \cup pieces[PLAYER_BISHOP]
                         ELSE pieces[ENGINE_QUEEN] \cup pieces[ENGINE_BISHOP])
    IN  UNION {LET blockers == (board.occupiedSquares \cap ordinals[pinningSquare].blockers)
                                  \cap Not(possiblyPinned)
                   pin == ordinalAttacks(pinningSquare, blockers)
               IN  (pins \cap pin) \cup boardOf(pinningSquare) : pinningSquare \in pinning}

\* MoveGen::getCardinalPins<isEngine>: the new value of cardinalPins
getCardinalPins(board, isEngine) ==
    LET pieces == board.position.pieces
        king == getLeastSquare(pieces[IF isEngine THEN ENGINE_KING ELSE PLAYER_KING])
        cardinalBlockers == board.occupiedSquares \cap cardinals[king].blockers
        possiblyPinned == cardinalAttacks(king, cardinalBlockers) \cap
            (IF isEngine THEN board.enginePieces ELSE board.playerPieces)
        pins == cardinalAttacks(king, cardinalBlockers \cap Not(possiblyPinned))
        pinning == pins \cap
            (IF isEngine THEN pieces[PLAYER_QUEEN] \cup pieces[PLAYER_ROOK]
                         ELSE pieces[ENGINE_QUEEN] \cup pieces[ENGINE_ROOK])
    IN  UNION {LET blockers == (board.occupiedSquares \cap cardinals[pinningSquare].blockers)
                                  \cap Not(possiblyPinned)
                   pin == cardinalAttacks(pinningSquare, blockers)
               IN  (pins \cap pin) \cup boardOf(pinningSquare) : pinningSquare \in pinning}

----------------------------------------------------------------------------
(* MoveGen: the moves of each piece kind.  Every operator yields the moves *)
(* the routine pushes on `generated`, in the order it pushes them; gen is  *)
(* the generator with blockerSquares, cardinalPins and ordinalPins set.    *)

capturedAt(board, to, isEngine) ==
    IF isEngine THEN getPlayerPieceType(board, to) ELSE getEnginePieceType(board, to)

\* MoveGen::generateQueenMoves<isEngine>
generateQueenMoves(board, gen, isEngine) ==
    LET queens == board.position.pieces[IF isEngine THEN ENGINE_QUEEN ELSE PLAYER_QUEEN]
        MovesOf(from) ==
            LET queen == boardOf(from)
                ordinalBlockers == board.occupiedSquares \cap ordinals[from].blockers
                ordinalMoves ==
                    IF queen \cap Not(gen.cardinalPins) # {}
                    THEN IF queen \cap gen.ordinalPins # {}
                         THEN ordinalAttacks(from, ordinalBlockers) \cap gen.ordinalPins
                         ELSE ordinalAttacks(from, ordinalBlockers)
                    ELSE {}
                cardinalBlockers == board.occupiedSquares \cap cardinals[from].blockers
                bothMoves ==
                    IF queen \cap Not(gen.ordinalPins) # {}
                    THEN IF queen \cap gen.cardinalPins # {}
                         THEN (ordinalMoves \cup cardinalAttacks(from, cardinalBlockers))
                                 \cap gen.cardinalPins
                         ELSE ordinalMoves \cup cardinalAttacks(from, cardinalBlockers)
                    ELSE ordinalMoves
                moves == (bothMoves \cap (IF isEngine THEN board.playerOrEmpty ELSE board.engineOrEmpty))
                            \cap gen.blockerSquares
                Push(to) == <<Move(NORMAL, from, to,
                                   IF isEngine THEN ENGINE_QUEEN ELSE PLAYER_QUEEN,
                                   capturedAt(board, to, isEngine))>>
            IN  ForEachSquare(moves, Push)
    IN  ForEachSquare(queens, MovesOf)

\* MoveGen::generateRookMoves<isEngine>
generateRookMoves(board, gen, isEngine) ==
    LET rooks == board.position.pieces[IF isEngine THEN ENGINE_ROOK ELSE PLAYER_ROOK]
                    \cap Not(gen.ordinalPins)
        MovesOf(from) ==
            LET blockers == board.occupiedSquares \cap cardinals[from].blockers
                free == (cardinalAttacks(from, blockers)
                            \cap (IF isEngine THEN board.playerOrEmpty ELSE board.engineOrEmpty))
                            \cap gen.blockerSquares
                moves == IF boardOf(from) \cap gen.cardinalPins # {}
                         THEN free \cap gen.cardinalPins
                         ELSE free
                Push(to) == <<Move(NORMAL, from, to,
                                   IF isEngine THEN ENGINE_ROOK ELSE PLAYER_ROOK,
                                   capturedAt(board, to, isEngine))>>
            IN  ForEachSquare(moves, Push)
    IN  ForEachSquare(rooks, MovesOf)

\* MoveGen::generateBishopMoves<isEngine>
generateBishopMoves(board, gen, isEngine) ==
    LET bishops == board.position.pieces[IF isEngine THEN ENGINE_BISHOP ELSE PLAYER_BISHOP]
                      \cap Not(gen.cardinalPins)
        MovesOf(from) ==
            LET blockers == board.occupiedSquares \cap ordinals[from].blockers
                free == (ordinalAttacks(from, blockers)
                            \cap (IF isEngine THEN board.playerOrEmpty ELSE board.engineOrEmpty))
                            \cap gen.blockerSquares
                moves == IF boardOf(from) \cap gen.ordinalPins # {}
                         THEN free \cap gen.ordinalPins
                         ELSE free
                Push(to) == <<Move(NORMAL, from, to,
                                   IF isEngine THEN ENGINE_BISHOP ELSE PLAYER_BISHOP,
                                   capturedAt(board, to, isEngine))>>
            IN  ForEachSquare(moves, Push)
    IN  ForEachSquare(bishops, MovesOf)

\* MoveGen::generateKnightMoves<isEngine>
generateKnightMoves(board, gen, isEngine) ==
    LET knights == board.position.pieces[IF isEngine THEN ENGINE_KNIGHT ELSE PLAYER_KNIGHT]
                      \cap Not(gen.cardinalPins \cup gen.ordinalPins)
        MovesOf(from) ==
            LET moves == (KNIGHT_MOVES[from]
                            \cap (IF isEngine THEN board.playerOrEmpty ELSE board.engineOrEmpty))
                            \cap gen.blockerSquares
                Push(to) == <<Move(NORMAL, from, to,
                                   IF isEngine THEN ENGINE_KNIGHT ELSE PLAYER_KNIGHT,
                                   capturedAt(board, to, isEngine))>>
            IN  ForEachSquare(moves, Push)
    IN  ForEachSquare(knights, MovesOf)

\* castleDestination with no test of the squares the king crosses
castleDestination_unsafe(board, isEngine, hasRight, emptyPath, safePath, empties, destination) ==
    IF hasRight
          /\ countSetBits(emptyPath \cap board.emptySquares) = empties
    THEN destination
    ELSE {}

\* castleDestination that lets one square of the path be occupied
castleDestination_oneBlocked(board, isEngine, hasRight, emptyPath, safePath, empties, destination) ==
    IF hasRight
          /\ countSetBits(emptyPath \cap board.emptySquares) >= empties - 1
          /\ \A square \in safePath : isSafeSquare(board, square, isEngine)
    THEN destination
    ELSE {}

\* generateKingMoves: the castling destination added to safeMoves for one
\* wing, or no square; empties is the number of squares that must be empty
castleDestination(board, isEngine, hasRight, emptyPath, safePath, empties, destination) ==
    IF hasRight
          /\ countSetBits(emptyPath \cap board.emptySquares) = empties
          /\ \A square \in safePath : isSafeSquare(board, square, isEngine)
    THEN destination
    ELSE {}

\* MoveGen::generateKingMoves<isEngine>
generateKingMoves(board, gen, isEngine) ==
    LET position == board.position
        from == getLeastSquare(position.pieces[IF isEngine THEN ENGINE_KING ELSE PLAYER_KING])
        moves == KING_MOVES[from] \cap (IF isEngine THEN board.playerOrEmpty ELSE board.engineOrEmpty)
        steps == {square \in moves : isSafeSquare(board, square, isEngine)}
        queensidePath == IF isEngine THEN ENGINE_QUEENSIDE_CASTLE ELSE PLAYER_QUEENSIDE_CASTLE
        extraSquare == IF isEngine THEN ENGINE_QUEENSIDE_DESTINATION ELSE PLAYER_QUEENSIDE_DESTINATION
        queenside == castleDestination(board, isEngine,
                        IF isEngine THEN position.engineCastleQueenside
                                    ELSE position.playerCastleQueenside,
                        queensidePath \cup Shl(extraSquare, 1), queensidePath, 3, extraSquare)
        kingsidePath == IF isEngine THEN ENGINE_KINGSIDE_CASTLE ELSE PLAYER_KINGSIDE_CASTLE
        kingside == castleDestination(board, isEngine,
                        IF isEngine THEN position.engineCastleKingside
                                    ELSE position.playerCastleKingside,
                        kingsidePath, kingsidePath, 2,
                        IF isEngine THEN ENGINE_KINGSIDE_DESTINATION
                                    ELSE PLAYER_KINGSIDE_DESTINATION)
        safeMoves == steps \cup queenside \cup kingside
        Push(to) == <<Move(NORMAL, from, to,
                           IF isEngine THEN ENGINE_KING ELSE PLAYER_KING,
                           capturedAt(board, to, isEngine))>>
    IN  ForEachSquare(safeMoves, Push)

\* the four promotions and the NORMAL move as well
pawnMoveOrPromotions_withNormal(from, to, captured, isEngine) ==
    [promotionChoice \in 1..(IF boardOf(to) \cap (IF isEngine THEN RANK7 ELSE RANK0) # {}
                             THEN 5 ELSE 1) |->
        Move(IF boardOf(to) \cap (IF isEngine THEN RANK7 ELSE RANK0) # {}
             THEN (IF promotionChoice = 5 THEN NORMAL ELSE promotionChoice - 1)
             ELSE NORMAL,
             from, to, IF isEngine THEN ENGINE_PAWN ELSE PLAYER_PAWN, captured)]

\* generatePawnMoves: a pawn move to `to`, fanned out into the four
\* promotions when `to` is on the last rank
pawnMoveOrPromotions(from, to, captured, isEngine) ==
    IF boardOf(to) \cap (IF isEngine THEN RANK7 ELSE RANK0) # {}
    THEN [promotionChoice \in 1..4 |->
             Move(promotionChoice - 1, from, to,
                  IF isEngine THEN ENGINE_PAWN ELSE PLAYER_PAWN, captured)]
    ELSE <<Move(NORMAL, from, to, IF isEngine THEN ENGINE_PAWN ELSE PLAYER_PAWN, captured)>>

\* generatePawnMoves: the horizontal scan that guards an en passant capture
\* from `from`: the king and the enemy rooks and queens the capturing pawn
\* sees along its rank once the captured pawn is lifted
enPassantPin(board, from, isEngine) ==
    LET pieces == board.position.pieces
        blockers == (cardinals[from].blockers \cap board.occupiedSquares)
                       \cap Not(board.position.enPassantCapture)
    IN  (cardinalAttacks(from, blockers) \cap (IF isEngine THEN RANK4 ELSE RANK3))
           \cap (pieces[IF isEngine THEN ENGINE_KING ELSE PLAYER_KING]
                   \cup pieces[IF isEngine THEN PLAYER_QUEEN ELSE ENGINE_QUEEN]
                   \cup pieces[IF isEngine THEN PLAYER_ROOK ELSE ENGINE_ROOK])

\* generatePawnMoves: whether the en passant capture from -> to is pushed
enPassantAllowed(board, gen, from, to, isEngine) ==
    IF boardOf(from) \cap gen.ordinalPins # {} /\ boardOf(to) \cap gen.ordinalPins = {}
    THEN FALSE
    ELSE countSetBits(enPassantPin(board, from, isEngine)) # 2

\* MoveGen::generatePawnMoves<isEngine>
generatePawnMoves(board, gen, isEngine) ==
    LET position == board.position
        pawn == IF isEngine THEN ENGINE_PAWN ELSE PLAYER_PAWN
        allPawns == position.pieces[pawn]
        unpinned == allPawns \cap Not(gen.ordinalPins)
        singlePushAll == (IF isEngine THEN Shl(unpinned, 8) ELSE Shr(unpinned, 8))
                            \cap board.emptySquares
        doublePushAll == (IF isEngine THEN Shl(singlePushAll \cap RANK2, 8)
                                      ELSE Shr(singlePushAll \cap RANK5, 8))
                            \cap board.emptySquares
        singlePush == singlePushAll \cap gen.blockerSquares
        doublePush == doublePushAll \cap gen.blockerSquares
        LeavesCardinalPin(from, to) ==
            boardOf(from) \cap gen.cardinalPins # {} /\ boardOf(to) \cap gen.cardinalPins = {}
        LeavesOrdinalPin(from, to) ==
            boardOf(from) \cap gen.ordinalPins # {} /\ boardOf(to) \cap gen.ordinalPins = {}
        SinglePush(to) ==
            LET from == to + (IF isEngine THEN -8 ELSE 8)
            IN  IF LeavesCardinalPin(from, to) THEN <<>>
                ELSE pawnMoveOrPromotions(from, to, NONE, isEngine)
        DoublePush(to) ==
            LET from == to + (IF isEngine THEN -16 ELSE 16)
            IN  IF LeavesCardinalPin(from, to) THEN <<>>
                ELSE <<Move(NORMAL, from, to, pawn, NONE)>>
        pawns == allPawns \cap Not(gen.cardinalPins)
        leftAttacks == ((IF isEngine THEN Shl(pawns \cap Not(FILE7), 9)
                                     ELSE Shr(pawns \cap Not(FILE0), 9))
                           \cap (IF isEngine THEN board.playerPieces ELSE board.enginePieces))
                           \cap gen.blockerSquares
        LeftAttack(to) ==
            LET from == to + (IF isEngine THEN -9 ELSE 9)
            IN  IF LeavesOrdinalPin(from, to) THEN <<>>
                ELSE pawnMoveOrPromotions(from, to, capturedAt(board, to, isEngine), isEngine)
        rightAttacks == ((IF isEngine THEN Shl(pawns \cap Not(FILE0), 7)
                                      ELSE Shr(pawns \cap Not(FILE7), 7))
                            \cap (IF isEngine THEN board.playerPieces ELSE board.enginePieces))
                            \cap gen.blockerSquares
        RightAttack(to) ==
            LET from == to + (IF isEngine THEN -7 ELSE 7)
            IN  IF LeavesOrdinalPin(from, to) THEN <<>>
                ELSE pawnMoveOrPromotions(from, to, capturedAt(board, to, isEngine), isEngine)
        rankPawns == pawns \cap (IF isEngine THEN RANK4 ELSE RANK3)
        rightEnPassant == (position.enPassantCapture
                             \cap (IF isEngine THEN Shr(rankPawns, 1) ELSE Shl(rankPawns, 1)))
                             \cap gen.blockerSquares
        leftEnPassant == (position.enPassantCapture
                            \cap (IF isEngine THEN Shl(rankPawns, 1) ELSE Shr(rankPawns, 1)))
                            \cap gen.blockerSquares
        rightCapture ==
            IF position.enPassantCapture # {} /\ rightEnPassant # {}
            THEN LET from == getLeastSquare(IF isEngine THEN Shl(rightEnPassant, 1)
                                                        ELSE Shr(rightEnPassant, 1))
                     to == from + (IF isEngine THEN 7 ELSE -7)
                 IN  IF enPassantAllowed(board, gen, from, to, isEngine)
                     THEN <<Move(EN_PASSANT, from, to, pawn,
                                 IF isEngine THEN PLAYER_PAWN ELSE ENGINE_PAWN)>>
                     ELSE <<>>
            ELSE <<>>
        leftCapture ==
            IF position.enPassantCapture # {} /\ leftEnPassant # {}
            THEN LET from == getLeastSquare(IF isEngine THEN Shr(leftEnPassant, 1)
                                                        ELSE Shl(leftEnPassant, 1))
                     to == from + (IF isEngine THEN 9 ELSE -9)
                 IN  IF enPassantAllowed(board, gen, from, to, isEngine)
                     THEN <<Move(EN_PASSANT, from, to, pawn,
                                 IF isEngine THEN PLAYER_PAWN ELSE ENGINE_PAWN)>>
                     ELSE <<>>
            ELSE <<>>
    IN  ForEachSquare(singlePush, SinglePush)
          \o ForEachSquare(doublePush, DoublePush)
          \o ForEachSquare(leftAttacks, LeftAttack)
          \o ForEachSquare(rightAttacks, RightAttack)
          \o rightCapture
          \o leftCapture

\* the generator fields generateEngineMoves / generatePlayerMoves compute first
withPins(board, gen, isEngine) ==
    [gen EXCEPT !.blockerSquares = getBlockerSquares(board, isEngine),
                !.cardinalPins = getCardinalPins(board, isEngine),
                !.ordinalPins = getOrdinalPins(board, isEngine)]

\* generateEngineMoves / generatePlayerMoves for the side isEngine
generateMoves(board, gen, isEngine) ==
    LET pinned == withPins(board, gen, isEngine)
    IN  [pinned EXCEPT !.generated =
            generatePawnMoves(board, pinned, isEngine)
              \o generateKnightMoves(board, pinned, isEngine)
              \o generateKingMoves(board, pinned, isEngine)
              \o generateBishopMoves(board, pinned, isEngine)
              \o generateRookMoves(board, pinned, isEngine)
              \o generateQueenMoves(board, pinned, isEngine)]

\* MoveGen::generateEngineMoves
generateEngineMoves(board, gen) == generateMoves(board, gen, TRUE)

\* MoveGen::generatePlayerMoves
generatePlayerMoves(board, gen) == generateMoves(board, gen, FALSE)

\* MoveGen::MoveGen: the fields the constructor sets
NewMoveGen ==
    [blockerSquares |-> FILLED_BOARD, cardinalPins |-> {}, ordinalPins |-> {},
     generated |-> <<>>]

(***************************************************************************)
(* MoveGen::getSortedMoves.  move.captured is tested as a number, so NONE  *)
(* (12) counts as a capture and PLAYER_PAWN (0) does not; the read of     *)
(* PIECE_VALUES[NONE] is one past the twelve entries of the array, and    *)
(* pieceValue is given the value that read returns.                       *)
(***************************************************************************)
OutOfBoundsValues == {0 - 1, 990059265}

\* PIECE_VALUES[piece], as getSortedMoves reads it
pieceValue(piece, outOfBounds) ==
    IF piece = NONE THEN outOfBounds ELSE PIECE_VALUES[piece]

\* the for loop of getSortedMoves from index on; the result is bestMoveIndex
RECURSIVE bestMoveIndexFrom(_, _, _, _, _, _)
bestMoveIndexFrom(generated, index, score, bestScore, bestMoveIndex, outOfBounds) ==
    IF index > Len(generated) THEN bestMoveIndex
    ELSE LET move == generated[index]
             newScore ==
                 IF move.captured # 0
                 THEN PIECE_VALUES[ENGINE_QUEEN]
                        + pieceValue(move.captured, outOfBounds)
                        - PIECE_VALUES[move.moving]
                 ELSE IF move.moving = PLAYER_PAWN \/ move.moving = ENGINE_PAWN
                      THEN 0
                      ELSE score
         IN  IF newScore > bestScore
             THEN bestMoveIndexFrom(generated, index + 1, newScore, newScore,
                                    index, outOfBounds)
             ELSE bestMoveIndexFrom(generated, index + 1, newScore, bestScore,
                                    bestMoveIndex, outOfBounds)

\* an erase that takes the move before the chosen one, the last for the first
erase_before(generated, index) ==
    LET before == IF index = 1 THEN Len(generated) ELSE index - 1
    IN  SubSeq(generated, 1, before - 1)
            \o SubSeq(generated, before + 1, Len(generated))

\* generated.erase(generated.begin() + index)
erase(generated, index) ==
    SubSeq(generated, 1, index - 1)
        \o SubSeq(generated, index + 1, Len(generated))

\* the while loop of getSortedMoves: the moves in the order they are pushed
RECURSIVE selectMoves(_, _)
selectMoves(generated, outOfBounds) ==
    IF generated = <<>> THEN <<>>
    ELSE LET bestMoveIndex ==
                 bestMoveIndexFrom(generated, 1, 0, 0 - 1, 1, outOfBounds)
         IN  <<generated[bestMoveIndex]>>
                 \o selectMoves(erase(generated, bestMoveIndex), outOfBounds)

\* std::reverse
reverse(s) == [i \in 1..Len(s) |-> s[Len(s) + 1 - i]]

\* MoveGen::getSortedMoves: the vector it returns
getSortedMoves(generated, outOfBounds) ==
    reverse(selectMoves(generated, outOfBounds))

(***************************************************************************)
(* ChessGame::makePlayerMove: the move the host builds from a click on the *)
(* square to of a piece on from; promotion is the piece the user picks    *)
(* when the pawn reaches the last rank.                                   *)
(***************************************************************************)
playerMove(board, from, to, promotion) ==
    LET isPawn == from \in board.position.pieces[PLAYER_PAWN]
        type == IF isPawn /\ to \in RANK0 THEN promotion
                ELSE IF isPawn /\ (from % 8) # (to % 8)
                              /\ getPieceType(board, to) = NONE
                     THEN EN_PASSANT
                     ELSE NORMAL
    IN  Move(type, from, to, getPieceType(board, from),
             IF type = EN_PASSANT
             THEN (IF board.engineToMove THEN PLAYER_PAWN ELSE ENGINE_PAWN)
             ELSE getPieceType(board, to))

\* the promotion types the user can pick
Promotions ==
    {QUEEN_PROMOTION, KNIGHT_PROMOTION, BISHOP_PROMOTION, ROOK_PROMOTION}

(***************************************************************************)
(* The games that are played: each line is an opening, a sequence of      *)
(* <<from, to, type>> from the initial position, and after a line the two *)
(* sides make up to MaxFree more moves of their choice.                   *)
(***************************************************************************)
MaxFree == 1

Lines == <<
    \* 1: en passant with a rook and a queen of the pawn's side on its rank
    <<<<15, 31, 5>>, <<53, 37, 5>>, <<31, 39, 5>>, <<37, 29, 5>>,
      <<7, 31, 5>>, <<57, 40, 5>>, <<11, 19, 5>>, <<40, 57, 5>>,
      <<4, 25, 5>>, <<57, 40, 5>>, <<12, 28, 5>>>>,
    \* 2: both sides can castle on both wings, the engine to move
    <<<<11, 27, 5>>, <<51, 35, 5>>, <<1, 18, 5>>, <<62, 45, 5>>,
      <<2, 29, 5>>, <<58, 37, 5>>, <<12, 20, 5>>, <<52, 44, 5>>,
      <<5, 33, 5>>, <<61, 25, 5>>, <<6, 21, 5>>, <<57, 42, 5>>,
      <<4, 12, 5>>, <<60, 52, 5>>>>,
    \* 3: both sides can castle on both wings, the player to move
    <<<<11, 27, 5>>, <<51, 35, 5>>, <<1, 18, 5>>, <<62, 45, 5>>,
      <<2, 29, 5>>, <<58, 37, 5>>, <<12, 20, 5>>, <<52, 44, 5>>,
      <<5, 33, 5>>, <<61, 25, 5>>, <<6, 21, 5>>, <<57, 42, 5>>,
      <<4, 12, 5>>, <<60, 52, 5>>, <<15, 23, 5>>>>,
    \* 4: an engine pawn on the seventh rank with two captures
    <<<<11, 27, 5>>, <<52, 36, 5>>, <<27, 36, 5>>, <<53, 45, 5>>,
      <<36, 45, 5>>, <<57, 42, 5>>, <<45, 54, 5>>, <<62, 52, 5>>>>,
    \* 5: a player pawn on the seventh rank with two captures
    <<<<15, 23, 5>>, <<51, 35, 5>>, <<12, 28, 5>>, <<35, 28, 5>>,
      <<13, 21, 5>>, <<28, 21, 5>>, <<1, 18, 5>>, <<21, 14, 5>>,
      <<6, 12, 5>>>>,
    \* 6: the engine can capture en passant
    <<<<11, 27, 5>>, <<55, 47, 5>>, <<27, 35, 5>>, <<52, 36, 5>>>>,
    \* 7: the player can capture en passant
    <<<<15, 23, 5>>, <<51, 35, 5>>, <<23, 31, 5>>, <<35, 27, 5>>,
      <<12, 28, 5>>>>,
    \* 8: en passant would open the rank between a rook and the king
    <<<<15, 31, 5>>, <<53, 37, 5>>, <<31, 39, 5>>, <<37, 29, 5>>,
      <<7, 31, 5>>, <<51, 43, 5>>, <<6, 23, 5>>, <<59, 51, 5>>,
      <<23, 6, 5>>, <<51, 42, 5>>, <<6, 23, 5>>, <<42, 33, 5>>,
      <<23, 6, 5>>, <<33, 24, 5>>, <<12, 28, 5>>>>,
    \* 9: a player knight pinned on a diagonal
    <<<<11, 27, 5>>, <<51, 35, 5>>, <<1, 18, 5>>, <<62, 45, 5>>,
      <<2, 38, 5>>, <<52, 44, 5>>>>,
    \* 10: a player bishop pinned on a file
    <<<<11, 27, 5>>, <<52, 36, 5>>, <<27, 36, 5>>, <<51, 43, 5>>,
      <<36, 43, 5>>, <<61, 43, 5>>, <<4, 11, 5>>>>,
    \* 11: the player king in check on a file, the square behind it empty
    <<<<11, 27, 5>>, <<51, 35, 5>>, <<4, 32, 5>>, <<59, 51, 5>>,
      <<32, 35, 5>>>>,
    \* 12: the player king in check by a bishop
    <<<<11, 27, 5>>, <<52, 36, 5>>, <<2, 38, 5>>>>,
    \* 13: the engine's kingside castling path attacked
    <<<<11, 27, 5>>, <<54, 46, 5>>, <<9, 17, 5>>, <<61, 47, 5>>,
      <<2, 9, 5>>, <<51, 43, 5>>, <<1, 18, 5>>, <<62, 45, 5>>>>,
    \* 14: the engine is one move from mate on f7
    <<<<11, 27, 5>>, <<51, 35, 5>>, <<2, 29, 5>>, <<62, 45, 5>>,
      <<4, 32, 5>>, <<57, 42, 5>>>>,
    \* 15: the player is one move from mate
    <<<<10, 18, 5>>, <<51, 35, 5>>, <<9, 25, 5>>>>,
    \* 16: the engine in check with two replies, each mated at once
    <<<<10, 26, 5>>, <<51, 43, 5>>, <<9, 25, 5>>, <<58, 37, 5>>,
      <<6, 21, 5>>, <<55, 47, 5>>, <<21, 27, 5>>, <<47, 39, 5>>,
      <<8, 16, 5>>, <<60, 24, 5>>>>,
    \* 17: the engine in check, its rights lost, a player rook gone and back
    <<<<11, 27, 5>>, <<51, 35, 5>>, <<3, 11, 5>>, <<57, 40, 5>>,
      <<11, 3, 5>>, <<56, 57, 5>>, <<10, 26, 5>>, <<57, 56, 5>>,
      <<15, 23, 5>>, <<60, 24, 5>>>>,
    \* 18: the engine is checkmated
    <<<<10, 18, 5>>, <<51, 35, 5>>, <<9, 25, 5>>, <<60, 24, 5>>>>,
    \* 19: the engine in check by a rook that its queen takes with mate
    <<<<1, 16, 5>>, <<54, 46, 5>>, <<15, 31, 5>>, <<48, 32, 5>>,
      <<16, 26, 5>>, <<46, 38, 5>>, <<9, 25, 5>>, <<56, 40, 5>>,
      <<2, 16, 5>>, <<32, 25, 5>>, <<26, 20, 5>>, <<25, 16, 5>>,
      <<3, 1, 5>>, <<50, 42, 5>>, <<11, 27, 5>>, <<61, 47, 5>>,
      <<4, 32, 5>>, <<40, 41, 5>>>>,
    \* 20: the engine ready to castle queenside, the square next to its rook
    \* attacked by the player queen
    <<<<14, 30, 5>>, <<55, 39, 5>>, <<30, 39, 5>>, <<53, 45, 5>>,
      <<6, 21, 5>>, <<60, 46, 5>>, <<5, 23, 5>>, <<48, 40, 5>>,
      <<11, 19, 5>>, <<40, 32, 5>>, <<4, 18, 5>>, <<32, 24, 5>>>>,
    \* 21: the player in double check by a knight and the queen behind it
    <<<<11, 27, 5>>, <<52, 36, 5>>, <<27, 36, 5>>, <<51, 35, 5>>,
      <<6, 21, 5>>, <<35, 27, 5>>, <<21, 27, 5>>, <<55, 47, 5>>,
      <<4, 11, 5>>, <<47, 39, 5>>, <<27, 44, 5>>>>,
    \* 22: the player in check by a knight
    <<<<6, 21, 5>>, <<48, 40, 5>>, <<21, 27, 5>>, <<40, 32, 5>>,
      <<27, 44, 5>>>>,
    \* 23: the player promotes with a capture and the engine answers
    <<<<15, 23, 5>>, <<51, 35, 5>>, <<12, 28, 5>>, <<35, 28, 5>>,
      <<13, 21, 5>>, <<28, 21, 5>>, <<1, 18, 5>>, <<21, 14, 5>>,
      <<6, 12, 5>>, <<14, 7, 0>>, <<11, 19, 5>>>>
>>

(***************************************************************************)
(* The game.  board and generator are the Board and the MoveGen objects,  *)
(* moves is the vector getSortedMoves returned to the side to move, pc is *)
(* the position of the turn: "generate" before the moves of the side to   *)
(* move are generated, "moves" once they are, "search" while getBestMove  *)
(* runs, "searched" when it has returned, "undefined" once makeMove was   *)
(* given a move that was never initialised.  stack holds the activation   *)
(* records of getBestMove, minimize and maximize and returned the value   *)
(* of the call that last returned.  outOfBounds is what the build reads   *)
(* from PIECE_VALUES[NONE].                                               *)
(*                                                                         *)
(* line, step and free tell which opening is played, how many of its      *)
(* moves are made and how many moves were made after it; searches counts  *)
(* the calls of getBestMove.  last is the move makeMove was last given,   *)
(* undone the board before the move the search has just taken back, and   *)
(* lost the castling rights seen cleared in a position of the game.  gui  *)
(* holds the fields of ChessGame the mouse and the animation work on.     *)
(***************************************************************************)
VARIABLES board, generator, moves, pc, stack, returned, outOfBounds,
          line, step, free, searches, last, undone, lost, gui

vars == <<board, generator, moves, pc, stack, returned, outOfBounds,
          line, step, free, searches, last, undone, lost, gui>>

\* no move made yet
NoMove == [made |-> FALSE, isEngine |-> FALSE,
           move |-> Move(NORMAL, 0, 0, NONE, NONE)]

\* no move was just taken back
NotUndone == [valid |-> FALSE, before |-> NewBoard,
              move |-> Move(NORMAL, 0, 0, NONE, NONE)]

\* the four castling rights
Rights == {"playerCastleQueenside", "playerCastleKingside",
           "engineCastleQueenside", "engineCastleKingside"}

\* the rights that are cleared in a position
cleared(position) == {right \in Rights : ~position[right]}

(***************************************************************************)
(* ChessGame's fields after the initialisations of its constructor.  A    *)
(* pointer to a Square is the set of that square, empty when it is null;  *)
(* pieces[square] is the type of the Piece boardGui[square].piece points  *)
(* to and NONE when the pointer is null; isCurrentMove is the set of the  *)
(* highlighted squares; pieceDragging and pieceMoving are the type of the *)
(* Piece pointed to, NONE when null; drawing tells whether an arrow is    *)
(* being drawn, and frames how many calls of updateMovingPiece the moving *)
(* piece is from its target.  The two last                                *)
(* fields are not the program's: event is the handler that ran last and   *)
(* applied the calls of Board::makeMove it made, each with the side the   *)
(* call was made for and engineToMove as the call found it.               *)
(***************************************************************************)
NewGui ==
    [pieceDragging |-> NONE, pieceMoving |-> NONE, frames |-> 0,
     promotionSquare |-> {}, selectedSquare |-> {}, drawing |-> FALSE,
     pieces |-> INITIAL_BOARD, isCurrentMove |-> {},
     event |-> "none", applied |-> <<>>]

\* ChessGame::ChessGame up to its call of makeEngineMove
Init ==
    /\ board = NewBoard
    /\ generator = NewMoveGen
    /\ moves = <<>>
    /\ pc = "generate"
    /\ stack = <<>>
    /\ returned = 0
    /\ outOfBounds \in OutOfBoundsValues
    /\ line \in 1..Len(Lines)
    /\ step = 0
    /\ free = 0
    /\ searches = 0
    /\ last = NoMove
    /\ undone = NotUndone
    /\ lost = {}
    /\ gui = NewGui

\* the move is the next one of the opening, or one of the free moves after it
Follows(move) ==
    IF step < Len(Lines[line])
    THEN /\ <<move.from, move.to, move.type>> = Lines[line][step + 1]
         /\ step' = step + 1
         /\ free' = free
    ELSE /\ free < MaxFree
         /\ step' = step
         /\ free' = free + 1

\* what a Board::Move that was declared and never assigned can hold
UninitialisedMoves ==
    {Move(QUEEN_PROMOTION, 0, 0, PLAYER_PAWN, PLAYER_PAWN),
     Move(NORMAL, 3, 11, ENGINE_KING, NONE)}

\* Search::getBestMove, its first two statements: the engine's moves
EngineGenerate ==
    /\ pc = "generate"
    /\ board.engineToMove
    /\ \E gen \in {generateEngineMoves(board, generator)} :
          /\ moves' = getSortedMoves(gen.generated, outOfBounds)
          /\ generator' = [gen EXCEPT !.generated = <<>>]
    /\ pc' = "moves"
    /\ UNCHANGED <<board, stack, returned, outOfBounds, line, step, free,
                   searches, last, undone, lost, gui>>

\* ChessGame::onMousePressed on a piece of the player: the player's moves
PlayerGenerate ==
    /\ pc = "generate"
    /\ ~board.engineToMove
    /\ \E gen \in {generatePlayerMoves(board, generator)} :
          /\ moves' = getSortedMoves(gen.generated, outOfBounds)
          /\ generator' = [gen EXCEPT !.generated = <<>>]
    /\ pc' = "moves"
    /\ UNCHANGED <<board, stack, returned, outOfBounds, line, step, free,
                   searches, last, undone, lost, gui>>

\* ChessGame::makeEngineMove: the move the search returns is one of moves
EngineMove ==
    /\ pc = "moves"
    /\ board.engineToMove
    /\ \E i \in 1..Len(moves) :
          /\ Follows(moves[i])
          /\ board' = makeMove(board, moves[i], TRUE)
          /\ last' = [made |-> TRUE, isEngine |-> TRUE, move |-> moves[i]]
    /\ moves' = <<>>
    /\ pc' = "generate"
    /\ lost' = lost \cup cleared(board'.position)
    /\ UNCHANGED <<generator, stack, returned, outOfBounds, line, searches,
                   undone, gui>>

\* ChessGame::makeEngineMove when the engine has no move: getBestMove
\* returns its local best as it was declared
EngineMoveUninitialised ==
    /\ pc = "moves"
    /\ board.engineToMove
    /\ moves = <<>>
    /\ \E best \in UninitialisedMoves :
          /\ board' = makeMove(board, best, TRUE)
          /\ last' = [made |-> TRUE, isEngine |-> TRUE, move |-> best]
    /\ pc' = "undefined"
    /\ UNCHANGED <<generator, moves, stack, returned, outOfBounds, line, step,
                   free, searches, undone, lost, gui>>

\* ChessGame::onMouseReleased over a highlighted square, and the click on
\* a promotion choice when there is one: makePlayerMove
PlayerMove ==
    /\ pc = "moves"
    /\ ~board.engineToMove
    /\ \E i \in 1..Len(moves) :
       \E promotion \in IF moves[i].type < EN_PASSANT
                         THEN Promotions ELSE {NORMAL} :
          LET move == playerMove(board, moves[i].from, moves[i].to, promotion)
          IN  /\ Follows(move)
              /\ board' = makeMove(board, move, FALSE)
              /\ last' = [made |-> TRUE, isEngine |-> FALSE, move |-> move]
    /\ moves' = <<>>
    /\ pc' = "generate"
    /\ lost' = lost \cup cleared(board'.position)
    /\ UNCHANGED <<generator, stack, returned, outOfBounds, line, searches,
                   undone, gui>>

Next ==
    \/ EngineGenerate
    \/ PlayerGenerate
    \/ EngineMove
    \/ EngineMoveUninitialised
    \/ PlayerMove

Spec == Init /\ [][Next]_vars

\* every move makeMove was given so far was emitted by the generator
GeneratedMovesOnly == pc # "undefined"

(***************************************************************************)
(* The rules of chess, written on a mailbox (the piece on each square)    *)
(* with no use of the generator's masks, pins or attack tables.           *)
(***************************************************************************)
RuleRow(s) == s \div 8
RuleCol(s) == s % 8

\* the piece on each square, read from the twelve piece sets
RuleMailbox(position) ==
    [s \in Squares |->
        IF \E p \in PieceTypes : s \in position.pieces[p]
        THEN CHOOSE p \in PieceTypes : s \in position.pieces[p]
        ELSE NONE]

RuleIsEngine(piece) == piece >= ENGINE_PAWN /\ piece <= ENGINE_KING
RuleIsPlayer(piece) == piece <= PLAYER_KING
RuleOwn(piece, isEngine) ==
    IF isEngine THEN RuleIsEngine(piece) ELSE RuleIsPlayer(piece)
RuleEnemy(piece, isEngine) ==
    IF isEngine THEN RuleIsPlayer(piece) ELSE RuleIsEngine(piece)

\* 0 pawn, 1 knight, 2 bishop, 3 rook, 4 queen, 5 king
RuleKind(piece) == piece % 6
RulePiece(kind, isEngine) == IF isEngine THEN kind + 6 ELSE kind

RuleSign(x) == IF x > 0 THEN 1 ELSE IF x < 0 THEN 0 - 1 ELSE 0
RuleMax(x, y) == IF x > y THEN x ELSE y

\* the squares strictly between two squares of one rank, file or diagonal
RuleBetween(a, b) ==
    LET dr == RuleSign(RuleRow(b) - RuleRow(a))
        dc == RuleSign(RuleCol(b) - RuleCol(a))
        n == RuleMax(Abs(RuleRow(b) - RuleRow(a)), Abs(RuleCol(b) - RuleCol(a)))
    IN  {(RuleRow(a) + k * dr) * 8 + RuleCol(a) + k * dc : k \in 1..(n - 1)}

\* the engine's pawns move towards row 7, the player's towards row 0
RuleForward(isEngine) == IF isEngine THEN 1 ELSE 0 - 1

\* a piece standing on a attacks the square t, where At(s) is the piece on s
RuleAttacks(piece, a, t, At(_)) ==
    LET kind == RuleKind(piece)
        dr == RuleRow(t) - RuleRow(a)
        dc == RuleCol(t) - RuleCol(a)
        diagonal == Abs(dr) = Abs(dc)
        straight == dr = 0 \/ dc = 0
        clear == \A s \in RuleBetween(a, t) : At(s) = NONE
    IN  /\ a # t
        /\ CASE kind = 0 -> dr = RuleForward(RuleIsEngine(piece)) /\ Abs(dc) = 1
             [] kind = 1 -> {Abs(dr), Abs(dc)} = {1, 2}
             [] kind = 2 -> diagonal /\ clear
             [] kind = 3 -> straight /\ clear
             [] kind = 4 -> (diagonal \/ straight) /\ clear
             [] kind = 5 -> RuleMax(Abs(dr), Abs(dc)) = 1

\* the squares a piece of a kind on a could attack on an empty board,
\* whichever way its side moves
RuleTargets ==
    [kind \in 0..5 |->
        [a \in Squares |->
            {t \in Squares :
                LET dr == Abs(RuleRow(t) - RuleRow(a))
                    dc == Abs(RuleCol(t) - RuleCol(a))
                IN  /\ a # t
                    /\ CASE kind = 0 -> dr = 1 /\ dc = 1
                         [] kind = 1 -> {dr, dc} = {1, 2}
                         [] kind = 2 -> dr = dc
                         [] kind = 3 -> dr = 0 \/ dc = 0
                         [] kind = 4 -> dr = dc \/ dr = 0 \/ dc = 0
                         [] kind = 5 -> RuleMax(dr, dc) = 1}]]

\* the squares of the pieces of one side
RuleSquares(position, isEngine) ==
    UNION {position.pieces[RulePiece(kind, isEngine)] : kind \in 0..5}

\* a piece of the side byEngine attacks t in the mailbox
RuleAttacked(position, mailbox, t, byEngine) ==
    LET At(s) == mailbox[s]
    IN  \E a \in RuleSquares(position, byEngine) :
            /\ t \in RuleTargets[RuleKind(mailbox[a])][a]
            /\ RuleAttacks(mailbox[a], a, t, At)

RulePromoted(type, isEngine) ==
    CASE type = QUEEN_PROMOTION -> RulePiece(4, isEngine)
      [] type = KNIGHT_PROMOTION -> RulePiece(1, isEngine)
      [] type = BISHOP_PROMOTION -> RulePiece(2, isEngine)
      [] type = ROOK_PROMOTION -> RulePiece(3, isEngine)
      [] OTHER -> RulePiece(0, isEngine)

\* the king of the side that makes the move is attacked once it is made
RuleLeavesKingAttacked(position, mailbox, move, isEngine) ==
    LET passed == RuleRow(move.from) * 8 + RuleCol(move.to)
        taken == IF move.type = EN_PASSANT THEN passed ELSE move.to
        After(s) == IF s = move.from THEN NONE
                    ELSE IF s = move.to THEN move.moving
                    ELSE IF s = taken THEN NONE
                    ELSE mailbox[s]
        king == IF RuleKind(move.moving) = 5 THEN move.to
                ELSE CHOOSE k \in position.pieces[RulePiece(5, isEngine)] : TRUE
    IN  \E a \in RuleSquares(position, ~isEngine) \ {taken} :
            /\ king \in RuleTargets[RuleKind(mailbox[a])][a]
            /\ RuleAttacks(mailbox[a], a, king, After)

\* NORMAL, or the four promotions when a pawn reaches the last row
RuleTypes(piece, to) ==
    IF RuleKind(piece) = 0 /\ RuleRow(to) \in {0, 7}
    THEN {QUEEN_PROMOTION, KNIGHT_PROMOTION, BISHOP_PROMOTION, ROOK_PROMOTION}
    ELSE {NORMAL}

\* the moves of the piece on from by the way it moves, check left aside
RulePieceMoves(position, mailbox, from, isEngine) ==
    LET piece == mailbox[from]
        At(s) == mailbox[s]
        forward == RuleForward(isEngine)
        home == IF isEngine THEN 1 ELSE 6
        one == from + 8 * forward
        two == from + 16 * forward
        reached == {t \in RuleTargets[RuleKind(piece)][from] :
                       RuleAttacks(piece, from, t, At)}
        steps ==
            {Move(NORMAL, from, to, piece, mailbox[to]) :
                to \in {t \in reached : ~RuleOwn(mailbox[t], isEngine)}}
        pushes ==
            IF one \in Squares /\ mailbox[one] = NONE
            THEN {Move(type, from, one, piece, NONE) :
                     type \in RuleTypes(piece, one)}
                 \cup (IF RuleRow(from) = home /\ mailbox[two] = NONE
                       THEN {Move(NORMAL, from, two, piece, NONE)} ELSE {})
            ELSE {}
        takes ==
            UNION {{Move(type, from, to, piece, mailbox[to]) :
                       type \in RuleTypes(piece, to)} :
                   to \in {t \in reached : /\ mailbox[t] # NONE
                                          /\ RuleEnemy(mailbox[t], isEngine)}}
        passing ==
            {Move(EN_PASSANT, from, to, piece, RulePiece(0, ~isEngine)) :
                to \in {t \in reached :
                           /\ mailbox[t] = NONE
                           /\ position.enPassantCapture =
                                  {RuleRow(from) * 8 + RuleCol(t)}
                           /\ mailbox[RuleRow(from) * 8 + RuleCol(t)]
                                  = RulePiece(0, ~isEngine)}}
    IN  IF RuleKind(piece) = 0 THEN pushes \cup takes \cup passing ELSE steps

\* castling of the king on from towards the rook on corner
RuleCastle(position, mailbox, isEngine, right, from, corner) ==
    LET to == IF corner < from THEN from - 2 ELSE from + 2
        passed == IF corner < from THEN from - 1 ELSE from + 1
    IN  IF /\ right
           /\ mailbox[from] = RulePiece(5, isEngine)
           /\ mailbox[corner] = RulePiece(3, isEngine)
           /\ \A s \in RuleBetween(from, corner) : mailbox[s] = NONE
           /\ \A s \in {from, passed, to} :
                 ~RuleAttacked(position, mailbox, s, ~isEngine)
        THEN {Move(NORMAL, from, to, RulePiece(5, isEngine), NONE)}
        ELSE {}

RuleCastles(position, mailbox, isEngine) ==
    IF isEngine
    THEN RuleCastle(position, mailbox, TRUE, position.engineCastleKingside, 3, 0)
         \cup RuleCastle(position, mailbox, TRUE, position.engineCastleQueenside, 3, 7)
    ELSE RuleCastle(position, mailbox, FALSE, position.playerCastleKingside, 59, 56)
         \cup RuleCastle(position, mailbox, FALSE, position.playerCastleQueenside, 59, 63)

\* the legal moves of the side isEngine in the position
RuleLegalMoves(position, isEngine) ==
    LET mailbox == RuleMailbox(position)
        candidates ==
            UNION {RulePieceMoves(position, mailbox, from, isEngine) :
                      from \in RuleSquares(position, isEngine)}
    IN  {move \in candidates :
            ~RuleLeavesKingAttacked(position, mailbox, move, isEngine)}
        \cup RuleCastles(position, mailbox, isEngine)

(***************************************************************************)
(* C1.  Soundness of move generation: in every position reached by        *)
(* applying generated moves from the initial position, every move the     *)
(* generator emits for the side to move is a legal chess move: the moving *)
(* side's king is not attacked after it.  This covers pinned pieces, king *)
(* steps along a checking slider's ray, castling and en passant.          *)
(***************************************************************************)
C1_Soundness ==
    pc = "moves" =>
        Range(moves) \subseteq RuleLegalMoves(board.position, board.engineToMove)

\* the generator has listed a castling move of the side to move
C1_Witness ==
    /\ pc = "moves"
    /\ \E i \in 1..Len(moves) :
          /\ moves[i].moving \in {ENGINE_KING, PLAYER_KING}
          /\ Abs(moves[i].to - moves[i].from) = 2

(***************************************************************************)
(* C2.  Completeness of move generation: in every such position, every    *)
(* legal chess move of the side to move is among the moves the generator  *)
(* emits.                                                                 *)
(***************************************************************************)
C2_Completeness ==
    pc = "moves" =>
        RuleLegalMoves(board.position, board.engineToMove) \subseteq Range(moves)

(***************************************************************************)
(* C3.  After any sequence of makeMove calls on moves emitted by the      *)
(* generator, the twelve piece bitboards are pairwise disjoint: no square *)
(* belongs to two piece types.                                            *)
(***************************************************************************)
C3_PiecesDisjoint ==
    GeneratedMovesOnly =>
        \A p \in PieceTypes, q \in PieceTypes :
            p # q => board.position.pieces[p] \cap board.position.pieces[q] = {}

\* an en passant capture was made: the captured pawn is not on the destination
C3_Witness ==
    /\ GeneratedMovesOnly
    /\ last.made
    /\ last.move.type = EN_PASSANT
    /\ C3_PiecesDisjoint

(***************************************************************************)
(* C4.  After any such sequence each side has exactly one king: the       *)
(* ENGINE_KING and the PLAYER_KING bitboards have one bit each.           *)
(***************************************************************************)
C4_OneKingEach ==
    GeneratedMovesOnly =>
        /\ countSetBits(board.position.pieces[ENGINE_KING]) = 1
        /\ countSetBits(board.position.pieces[PLAYER_KING]) = 1

\* a king has just moved
C4_Witness ==
    /\ GeneratedMovesOnly
    /\ last.made
    /\ last.move.moving \in {ENGINE_KING, PLAYER_KING}
    /\ C4_OneKingEach

(***************************************************************************)
(* C6.  Right after every makeMove the derived masks are the unions they  *)
(* stand for: enginePieces and playerPieces are the unions of the six     *)
(* bitboards of their side, occupiedSquares is the union of the two,      *)
(* emptySquares is its complement, and playerOrEmpty and engineOrEmpty    *)
(* are playerPieces and enginePieces joined with emptySquares.            *)
(***************************************************************************)
C6_DerivedMasks ==
    LET pieces == board.position.pieces
        engine == UNION {pieces[p] : p \in ENGINE_PAWN..ENGINE_KING}
        player == UNION {pieces[p] : p \in PLAYER_PAWN..PLAYER_KING}
    IN  /\ board.enginePieces = engine
        /\ board.playerPieces = player
        /\ board.occupiedSquares = engine \cup player
        /\ board.emptySquares = Squares \ (engine \cup player)
        /\ board.playerOrEmpty = Squares \ engine
        /\ board.engineOrEmpty = Squares \ player

\* a capture that is also a promotion was made
C6_Witness ==
    /\ last.made
    /\ last.move.type \in Promotions
    /\ last.move.captured # NONE
    /\ C6_DerivedMasks

(***************************************************************************)
(* C7.  After makeMove, enPassantCapture is empty or the single bit of    *)
(* the destination of the move just made; it is not empty exactly when    *)
(* that move was a pawn advancing two ranks with an enemy pawn on an      *)
(* adjacent file of the destination rank; it is on rank 3 after a double  *)
(* push of the engine and on rank 4 after one of the player.  The target  *)
(* left by the move before is cleared.                                    *)
(***************************************************************************)
C7_DoublePush ==
    /\ last.move.moving = (IF last.isEngine THEN ENGINE_PAWN ELSE PLAYER_PAWN)
    /\ Abs(last.move.to - last.move.from) = 16
    /\ \E s \in Squares :
          /\ s \div 8 = last.move.to \div 8
          /\ Abs((s % 8) - (last.move.to % 8)) = 1
          /\ s \in board.position.pieces[IF last.isEngine THEN PLAYER_PAWN
                                                          ELSE ENGINE_PAWN]

C7_EnPassantSquare ==
    LET enPassant == board.position.enPassantCapture
    IN  IF ~GeneratedMovesOnly THEN TRUE
        ELSE IF last.made
        THEN /\ enPassant = {} \/ enPassant = {last.move.to}
             /\ enPassant # {} <=> C7_DoublePush
             /\ enPassant # {} =>
                   enPassant \subseteq (IF last.isEngine THEN RANK3 ELSE RANK4)
        ELSE enPassant = {}

\* the engine pushed a pawn two ranks beside a player pawn
C7_Witness ==
    /\ GeneratedMovesOnly
    /\ last.made
    /\ last.isEngine
    /\ board.position.enPassantCapture = {last.move.to}
    /\ C7_DoublePush

(***************************************************************************)
(* C9.  getSortedMoves returns the generated moves in descending order of *)
(* the key PIECE_VALUES[Queen] + PIECE_VALUES[captured] -                 *)
(* PIECE_VALUES[moving] for a capture and 0 for a non-capture, moves of   *)
(* equal key in the order they were generated.                            *)
(***************************************************************************)
C9_Key(move) ==
    IF move.captured # NONE
    THEN PIECE_VALUES[ENGINE_QUEEN] + PIECE_VALUES[move.captured]
            - PIECE_VALUES[move.moving]
    ELSE 0

C9_DescendingKeys ==
    pc = "moves" =>
        LET generated ==
                generateMoves(board, generator, board.engineToMove).generated
            position(move) ==
                CHOOSE i \in 1..Len(generated) : generated[i] = move
        IN  \A i \in 1..Len(moves), j \in 1..Len(moves) :
                i < j =>
                    \/ C9_Key(moves[i]) > C9_Key(moves[j])
                    \/ /\ C9_Key(moves[i]) = C9_Key(moves[j])
                       /\ position(moves[i]) < position(moves[j])

(***************************************************************************)
(* C10.  In the vector getSortedMoves returns every capture, a capture of *)
(* a player pawn included, comes before every non-capture.                *)
(***************************************************************************)
C10_CapturesFirst ==
    pc = "moves" =>
        \A i \in 1..Len(moves), j \in 1..Len(moves) :
            i < j => ~(moves[i].captured = NONE /\ moves[j].captured # NONE)

(***************************************************************************)
(* Evaluation and Search.  The search is run to SEARCH_DEPTH plies below  *)
(* the root, from the positions the openings of SearchLines end in.       *)
(***************************************************************************)
SEARCH_DEPTH == 2

MAX_EVAL == 32768
MIN_EVAL == 0 - MAX_EVAL

\* the squares of rows and columns given, a rectangle of the board
Box(rows, cols) == {s \in Squares : s \div 8 \in rows /\ s % 8 \in cols}

CENTER_16_SQUARES == Box(2..5, 2..5)
CENTER_4_SQUARES == Box(3..4, 3..4)
ENGINE_ADVANCED_PAWNS == Box(3..5, 2..5)
\* the player's advanced pawns counted on the engine's squares
PLAYER_ADVANCED_PAWNS_asEngine == Box(3..5, 2..5)

PLAYER_ADVANCED_PAWNS == Box(2..4, 2..5)
PAWN_CENTER == Box(3..4, 2..5)

\* the sum of PIECE_VALUES over the pawns to the queens of one side
RECURSIVE material(_, _, _)
material(position, pieceType, last_) ==
    IF pieceType > last_ THEN 0
    ELSE countSetBits(position.pieces[pieceType]) * PIECE_VALUES[pieceType]
            + material(position, pieceType + 1, last_)

\* Evaluation::evaluate
evaluate(position) ==
    LET pieces == position.pieces
    IN  material(position, ENGINE_PAWN, ENGINE_QUEEN)
        - material(position, PLAYER_PAWN, PLAYER_QUEEN)
        - countSetBits(pieces[PLAYER_KNIGHT] \cap CENTER_16_SQUARES) * 70
        + countSetBits(pieces[ENGINE_KNIGHT] \cap CENTER_16_SQUARES) * 70
        - countSetBits(pieces[PLAYER_BISHOP] \cap CENTER_16_SQUARES) * 60
        + countSetBits(pieces[ENGINE_BISHOP] \cap CENTER_16_SQUARES) * 60
        - countSetBits(pieces[PLAYER_PAWN] \cap PAWN_CENTER) * 10
        - countSetBits(pieces[PLAYER_PAWN] \cap CENTER_4_SQUARES) * 30
        - countSetBits(pieces[PLAYER_PAWN] \cap PLAYER_ADVANCED_PAWNS) * 15
        + countSetBits(pieces[ENGINE_PAWN] \cap PAWN_CENTER) * 10
        + countSetBits(pieces[ENGINE_PAWN] \cap CENTER_4_SQUARES) * 30
        + countSetBits(pieces[ENGINE_PAWN] \cap ENGINE_ADVANCED_PAWNS) * 15

\* restore that leaves the side to move as makeMove set it
restore_withoutToggle(board_, clone) ==
    [board_ EXCEPT !.position = clone]

\* restore that puts back the pieces and the en passant square and leaves
\* the castling rights as the move has left them
restore_keepsRights(board_, clone) ==
    [board_ EXCEPT
        !.position = [@ EXCEPT !.pieces = clone.pieces,
                               !.enPassantCapture = clone.enPassantCapture],
        !.engineToMove = ~@]

\* "unmake the move": board->position = clone and the toggle of engineToMove
restore(board_, clone) ==
    [board_ EXCEPT !.position = clone, !.engineToMove = ~@]

\* the local best of getBestMove before it is assigned
NoBest == [set |-> FALSE, move |-> Move(NORMAL, 0, 0, NONE, NONE)]

\* the activation record of getBestMove, minimize or maximize; scores keeps
\* the values of the local score in the loop so far, one for each move tried,
\* pruned, in the record of getBestMove, tells that a loop below it was left
\* by its break with moves untried, and entered is the board the function
\* was called on
Frame(fn, ply, alpha, beta) ==
    [fn |-> fn, ply |-> ply, alpha |-> alpha, beta |-> beta,
     bestScore |-> IF fn = "minimize" THEN MAX_EVAL ELSE MIN_EVAL,
     best |-> NoBest, moves |-> <<>>, index |-> 1, scores |-> <<>>,
     pruned |-> FALSE, entered |-> NewBoard,
     clone |-> NewBoard.position, before |-> NewBoard, at |-> "enter"]

\* the side whose moves the function makes
movesEngine(fn) == fn # "minimize"

top == stack[Len(stack)]
callers == SubSeq(stack, 1, Len(stack) - 1)

\* the opening line is not yet played to its end
Opening == step < Len(Lines[line])

\* Search::getBestMove up to its loop
GetBestMoveBegin ==
    /\ pc = "generate"
    /\ board.engineToMove
    /\ ~Opening
    /\ free < MaxFree
    /\ searches' = searches + 1
    /\ \E gen \in {generateEngineMoves(board, generator)} :
       \E sorted \in {getSortedMoves(gen.generated, outOfBounds)} :
          /\ generator' = [gen EXCEPT !.generated = <<>>]
          /\ stack' = <<[Frame("getBestMove", 0, 0, 0) EXCEPT
                            !.moves = sorted,
                            !.entered = board,
                            !.at = IF sorted = <<>> THEN "done" ELSE "loop"]>>
          /\ pc' = IF sorted = <<>> THEN "searched" ELSE "search"
    /\ UNCHANGED <<board, moves, returned, outOfBounds, line, step, free,
                   last, undone, lost, gui>>

\* the head of a loop body: the clone, makeMove and the recursive call
Descend ==
    /\ pc = "search"
    /\ top.at = "loop"
    /\ LET move == top.moves[top.index]
           callee ==
               IF top.fn = "getBestMove" THEN Frame("minimize", 1, MIN_EVAL, MAX_EVAL)
               ELSE IF top.fn = "maximize"
               THEN Frame("minimize", top.ply + 1, top.alpha, top.beta)
               ELSE Frame("maximize", top.ply + 1, top.alpha, top.beta)
       IN  /\ board' = makeMove(board, move, movesEngine(top.fn))
           /\ stack' = callers
                  \o <<[top EXCEPT !.clone = board.position,
                                   !.before = board,
                                   !.at = "called"]>>
                  \o <<[callee EXCEPT !.entered = board']>>
           /\ last' = [made |-> TRUE, isEngine |-> movesEngine(top.fn),
                       move |-> move]
    /\ undone' = NotUndone
    /\ UNCHANGED <<generator, moves, pc, returned, outOfBounds, line, step,
                   free, searches, lost, gui>>

\* terminal scores with a mate worth half of MAX_EVAL
terminalScore_halfMate(fn, ply, inCheck) ==
    IF ~inCheck THEN 0
    ELSE IF fn = "maximize" THEN MIN_EVAL \div 2 + ply
         ELSE MAX_EVAL \div 2 - ply

\* terminal scores with the ply taken the wrong way
terminalScore_plyReversed(fn, ply, inCheck) ==
    IF ~inCheck THEN 0
    ELSE IF fn = "maximize" THEN MIN_EVAL - ply ELSE MAX_EVAL + ply

\* the return of maximize and minimize from "if (moves.empty())"
terminalScore(fn, ply, inCheck) ==
    IF inCheck
    THEN (IF fn = "maximize" THEN MIN_EVAL + ply ELSE MAX_EVAL - ply)
    ELSE 0

\* a leaf test that lets the recursion go one ply further
isLeaf_oneDeeper(ply) == ply > SEARCH_DEPTH + 1

\* "if (ply > SEARCH_DEPTH)" of maximize and minimize
isLeaf(ply) == ply > SEARCH_DEPTH

\* minimize and maximize up to their loop
Enter ==
    /\ pc = "search"
    /\ top.at = "enter"
    /\ IF isLeaf(top.ply)
       THEN /\ returned' = evaluate(board.position)
            /\ stack' = callers
            /\ generator' = generator
       ELSE \E gen \in {generateMoves(board, generator, movesEngine(top.fn))} :
            \E sorted \in {getSortedMoves(gen.generated, outOfBounds)} :
                /\ generator' = [gen EXCEPT !.generated = <<>>]
                /\ IF sorted = <<>>
                   THEN /\ returned' =
                              terminalScore(top.fn, top.ply,
                                  isKingInCheck(board, movesEngine(top.fn)))
                        /\ stack' = callers
                   ELSE /\ returned' = returned
                        /\ stack' = callers
                               \o <<[top EXCEPT !.moves = sorted,
                                                !.at = "loop"]>>
    /\ undone' = NotUndone
    /\ UNCHANGED <<board, moves, pc, outOfBounds, line, step, free, searches,
                   last, lost, gui>>

\* a comparison that lets a later move of the same score replace the best one
improves_orEqual(fn, score, bestScore) ==
    IF fn = "minimize" THEN score <= bestScore ELSE score >= bestScore

\* "if (score < bestScore)" of minimize, "if (score > bestScore)" of maximize
\* and getBestMove
improves(fn, score, bestScore) ==
    IF fn = "minimize" THEN score < bestScore ELSE score > bestScore

\* a test that leaves the loop while the window is still open
cutoff_reversed(alpha, beta) == alpha <= beta

\* "if (beta <= alpha) break" of maximize and minimize
cutoff(alpha, beta) == beta <= alpha

\* the rest of a loop body once the call has returned: the score, the
\* restore of the clone, the window and the end of the loop
Resume ==
    /\ pc = "search"
    /\ top.at = "called"
    /\ LET score == returned
           move == top.moves[top.index]
           better == improves(top.fn, score, top.bestScore)
           bestScore == IF better THEN score ELSE top.bestScore
           alpha == IF top.fn = "maximize" /\ bestScore > top.alpha
                    THEN bestScore ELSE top.alpha
           beta == IF top.fn = "minimize" /\ bestScore < top.beta
                   THEN bestScore ELSE top.beta
           cut == top.fn # "getBestMove" /\ cutoff(alpha, beta)
           below == IF cut /\ top.index < Len(top.moves)
                    THEN [callers EXCEPT ![1].pruned = TRUE] ELSE callers
           over == cut \/ top.index = Len(top.moves)
           frame == [top EXCEPT
                        !.bestScore = bestScore,
                        !.best = IF top.fn = "getBestMove" /\ better
                                 THEN [set |-> TRUE, move |-> move] ELSE @,
                        !.alpha = alpha,
                        !.beta = beta,
                        !.index = @ + 1,
                        !.scores = Append(@, score),
                        !.at = IF over THEN "done" ELSE "loop"]
       IN  /\ board' = restore(board, top.clone)
           /\ undone' = [valid |-> TRUE, before |-> top.before, move |-> move]
           /\ IF ~over
              THEN /\ stack' = callers \o <<frame>>
                   /\ UNCHANGED <<pc, returned>>
              ELSE IF top.fn = "getBestMove"
              THEN /\ stack' = <<frame>>
                   /\ pc' = "searched"
                   /\ returned' = returned
              ELSE /\ stack' = below
                   /\ pc' = pc
                   /\ returned' = bestScore
    /\ UNCHANGED <<generator, moves, outOfBounds, line, step, free, searches,
                   last, lost, gui>>

\* ChessGame::makeEngineMove once getBestMove has returned
MakeBestMove ==
    /\ pc = "searched"
    /\ IF top.best.set
       THEN /\ board' = makeMove(board, top.best.move, TRUE)
            /\ last' = [made |-> TRUE, isEngine |-> TRUE, move |-> top.best.move]
            /\ pc' = "generate"
       ELSE /\ \E best \in UninitialisedMoves :
                  /\ board' = makeMove(board, best, TRUE)
                  /\ last' = [made |-> TRUE, isEngine |-> TRUE, move |-> best]
            /\ pc' = "undefined"
    /\ stack' = <<>>
    /\ undone' = NotUndone
    /\ free' = free + 1
    /\ lost' = lost \cup cleared(board'.position)
    /\ UNCHANGED <<generator, moves, returned, outOfBounds, line, step,
                   searches, gui>>

\* the openings after which the search is run
SearchLines == {16, 17, 18, 19}

InitSearch == Init /\ line \in SearchLines

\* the pieces the player answers a search with: the ones whose moves write
\* the castling rights
ReplyPieces == {PLAYER_KING, PLAYER_ROOK}

\* makePlayerMove in the opening, and after it with one of ReplyPieces
PlayerReply ==
    /\ PlayerMove
    /\ Opening \/ last'.move.moving \in ReplyPieces

NextSearch ==
    \/ Opening /\ EngineGenerate
    \/ EngineMove
    \/ PlayerGenerate
    \/ PlayerReply
    \/ GetBestMoveBegin
    \/ Descend
    \/ Enter
    \/ Resume
    \/ MakeBestMove

SearchSpec == InitSearch /\ [][NextSearch]_vars

\* Descend and Enter can be taken: the state predicates that
\* ENABLED <<Descend>>_vars and ENABLED <<Enter>>_vars equal
DescendEnabled == pc = "search" /\ top.at = "loop"
EnterEnabled == pc = "search" /\ top.at = "enter"

\* the search is one thread of straight-line code: a step of getBestMove,
\* maximize or minimize that can be taken is taken.  The second and third
\* conjuncts are WF_vars(Descend) and WF_vars(Enter) with DescendEnabled and
\* EnterEnabled written for ENABLED <<Descend>>_vars and ENABLED <<Enter>>_vars
SearchRuns ==
    /\ WF_vars(Resume)
    /\ ([]<>~DescendEnabled) \/ ([]<><<Descend>>_vars)
    /\ ([]<>~EnterEnabled) \/ ([]<><<Enter>>_vars)

LiveSearchSpec == SearchSpec /\ SearchRuns

----------------------------------------------------------------------------
(***************************************************************************)
(* MoveGen::MoveGen: the loop that gives every square its two magics.      *)
(* While it runs the generator also holds the square and the call of       *)
(* getMagicNumber the loop is at, the tries that call has left, the magics *)
(* returned so far (cardinals[square].magic and ordinals[square].magic,    *)
(* square 0 first) and the row of cardinalAttacks or ordinalAttacks the    *)
(* last return wrote; a row is written once.                               *)
(***************************************************************************)
MaxTries == 2

\* no row written yet
NoRow == [square |-> 0, isCardinal |-> FALSE, attacks |-> <<>>]

InitMagic ==
    /\ board = NewBoard
    /\ generator = [blockerSquares |-> FILLED_BOARD, cardinalPins |-> {},
                    ordinalPins |-> {}, generated |-> <<>>,
                    square |-> 0, isCardinal |-> TRUE, tries |-> MaxTries,
                    cardinalMagics |-> <<>>, ordinalMagics |-> <<>>,
                    row |-> NoRow]
    /\ moves = <<>>
    /\ pc = "construct"
    /\ stack = <<>>
    /\ returned = 0
    /\ outOfBounds \in OutOfBoundsValues
    /\ line = 1
    /\ step = 0
    /\ free = 0
    /\ searches = 0
    /\ last = NoMove
    /\ undone = NotUndone
    /\ lost = {}
    /\ gui = NewGui

\* the return of getMagicNumber into the loop of the constructor
returnMagic(gen, magic, attacksSeen) ==
    [gen EXCEPT
        !.cardinalMagics = IF gen.isCardinal THEN Append(@, magic) ELSE @,
        !.ordinalMagics = IF gen.isCardinal THEN @ ELSE Append(@, magic),
        !.row = [square |-> gen.square, isCardinal |-> gen.isCardinal,
                 attacks |-> attacksSeen],
        !.square = IF gen.isCardinal THEN @ ELSE @ + 1,
        !.isCardinal = ~@,
        !.tries = MaxTries]

\* one pass of while (tries--) in getMagicNumber
TryMagic ==
    /\ pc = "construct"
    /\ generator.tries > 0
    /\ \E magic \in Draws(generator.square, generator.isCardinal) :
         \E tried \in {tryMagic(generator.square, generator.isCardinal, magic)} :
           /\ generator' = IF tried.magic # {}
                           THEN returnMagic(generator, tried.magic, tried.attacksSeen)
                           ELSE [generator EXCEPT !.tries = @ - 1]
           /\ pc' = IF generator'.square = 64 THEN "constructed" ELSE "construct"
    /\ UNCHANGED <<board, moves, stack, returned, outOfBounds, line, step,
                   free, searches, last, undone, lost, gui>>

\* the tries ran out: assert(false)
GiveUp ==
    /\ pc = "construct"
    /\ generator.tries = 0
    /\ pc' = "failed"
    /\ UNCHANGED <<board, generator, moves, stack, returned, outOfBounds,
                   line, step, free, searches, last, undone, lost, gui>>

NextMagic ==
    \/ TryMagic
    \/ GiveUp

MagicSpec == InitMagic /\ [][NextMagic]_vars

(***************************************************************************)
(* The host loop of main: each frame calls updateMovingPiece and then the *)
(* handler of every mouse event that is waiting.  A handler is an         *)
(* operator from the objects it works on, the record                      *)
(* [board, generator, gui, last, pc], to the set of the records it can    *)
(* leave.  The mouse is the set of the square under the cursor, empty     *)
(* when the cursor is on no square.  The arrows, the previous-move        *)
(* highlights and the pixel bounds of the pieces are left out: no branch  *)
(* of a handler reads them.                                               *)
(***************************************************************************)

\* frames an animation takes: the piece covers a fifteenth of the distance
\* per frame and arrives once it is closer than one step
AnimationTicks == 2

\* the handler goes on from each of the outcomes so far
Then(outcomes, handler(_)) == UNION {handler(h) : h \in outcomes}

\* board->makeMove<isEngine>(move) as a handler calls it
applyMove(h, move, isEngine) ==
    [h EXCEPT !.board = makeMove(h.board, move, isEngine),
              !.last = [made |-> TRUE, isEngine |-> isEngine, move |-> move],
              !.gui.applied = Append(@, [isEngine |-> isEngine,
                                         engineToMove |-> h.board.engineToMove,
                                         move |-> move])]

\* ChessGame::updateBoardGui: a Piece for every piece of the position, made
\* from its bounds and its texture, so that its type is PLAYER_PAWN
updateBoardGui(h) ==
    [h EXCEPT !.gui.pieces = [square \in Squares |->
                  IF getPieceType(h.board, square) # NONE
                  THEN PLAYER_PAWN ELSE NONE]]

\* ChessGame::makePlayerMove
makePlayerMove(h, from, to, type) ==
    LET reset == [h EXCEPT !.gui.isCurrentMove = {}]
    IN  IF /\ type = NORMAL
           /\ from \in h.board.position.pieces[PLAYER_PAWN]
           /\ to \in RANK0
        THEN [reset EXCEPT !.gui.promotionSquare = boardOf(to)]
        ELSE applyMove(reset, playerMove(h.board, from, to, type), FALSE)

(***************************************************************************)
(* ChessGame::setMovingPiece.  When from has no piece, pieceMoving is     *)
(* null and reading pieceMoving->bounds is undefined: the program stops   *)
(* there (pc = "crashed") or goes on with no piece moving.                *)
(***************************************************************************)
setMovingPiece(h, from, to) ==
    LET selected == [h EXCEPT !.gui.selectedSquare = boardOf(from)]
        moving == [selected EXCEPT !.gui.pieceMoving = h.gui.pieces[from],
                                   !.gui.frames = AnimationTicks]
    IN  IF h.gui.pieces[from] = NONE
        THEN {[moving EXCEPT !.pc = "crashed"],
              [moving EXCEPT !.gui.isCurrentMove = {}]}
        ELSE {[moving EXCEPT !.gui.isCurrentMove = {}]}

(***************************************************************************)
(* ChessGame::makeEngineMove.  getBestMove returns one of the moves the   *)
(* generator has for the engine, and its local best as it was declared    *)
(* when there is none: then the squares given to setMovingPiece are not   *)
(* defined either (pc = "undefined").                                     *)
(***************************************************************************)
makeEngineMove(h) ==
    Then({generateEngineMoves(h.board, h.generator)}, LAMBDA gen :
    Then({getSortedMoves(gen.generated, outOfBounds)}, LAMBDA sorted :
    Then({[h EXCEPT !.generator = [gen EXCEPT !.generated = <<>>]]},
         LAMBDA searched :
        IF sorted = <<>>
        THEN {[applyMove(searched, best, TRUE) EXCEPT !.pc = "undefined"] :
                 best \in UninitialisedMoves}
        ELSE Then(Range(sorted), LAMBDA best :
             Then(setMovingPiece(searched, best.from, best.to),
                  LAMBDA moving : IF moving.pc = "crashed" THEN {moving}
                                  ELSE {applyMove(moving, best, TRUE)})))))

\* promotionChoices: the squares the four pieces are drawn on
promotionChoices ==
    <<[square |-> 26, type |-> PLAYER_QUEEN],
      [square |-> 27, type |-> PLAYER_ROOK],
      [square |-> 28, type |-> PLAYER_BISHOP],
      [square |-> 29, type |-> PLAYER_KNIGHT]>>

\* the promotion type onMousePressed takes from the choice
promotionType(choice) ==
    CASE choice.type = PLAYER_QUEEN -> QUEEN_PROMOTION
      [] choice.type = PLAYER_ROOK -> ROOK_PROMOTION
      [] choice.type = PLAYER_BISHOP -> BISHOP_PROMOTION
      [] choice.type = PLAYER_KNIGHT -> KNIGHT_PROMOTION

\* ChessGame::onMousePressed, the click on a promotion choice
choosePromotion(h, choice) ==
    Then({[makePlayerMove(h, getLeastSquare(h.gui.selectedSquare),
                          getLeastSquare(h.gui.promotionSquare),
                          promotionType(choice))
              EXCEPT !.gui.promotionSquare = {}]},
         LAMBDA chosen :
             IF chosen.gui.pieceMoving # NONE THEN {chosen}
             ELSE Then({updateBoardGui(chosen)}, makeEngineMove))

\* ChessGame::onMousePressed, the press on a piece of the player: the drag
\* begins and the squares the piece can move to are highlighted
beginDragging(h, clicked) ==
    Then({generatePlayerMoves(h.board, h.generator)}, LAMBDA gen :
    Then({getSortedMoves(gen.generated, outOfBounds)}, LAMBDA sorted :
        {[h EXCEPT !.generator = [gen EXCEPT !.generated = <<>>],
                   !.gui.pieceDragging = h.gui.pieces[clicked],
                   !.gui.selectedSquare = boardOf(clicked),
                   !.gui.pieces[clicked] = NONE,
                   !.gui.isCurrentMove =
                       {move.to : move \in {option \in Range(sorted) :
                                               option.from = clicked}}]}))

\* ChessGame::onMousePressed
onMousePressed(h, mouse, isRightClick) ==
    IF h.gui.promotionSquare # {} /\ ~h.board.engineToMove
    THEN IF \E i \in 1..Len(promotionChoices) :
                promotionChoices[i].square \in mouse
         THEN choosePromotion(h, promotionChoices[
                  CHOOSE i \in 1..Len(promotionChoices) :
                      promotionChoices[i].square \in mouse])
         ELSE {h}
    ELSE IF h.gui.pieceMoving # NONE \/ mouse = {} THEN {h}
    ELSE LET clicked == getLeastSquare(mouse)
         IN  IF isRightClick THEN {[h EXCEPT !.gui.drawing = TRUE]}
             ELSE IF h.board.engineToMove THEN {h}
             ELSE IF clicked \in h.gui.isCurrentMove
             THEN Then({makePlayerMove(h,
                            getLeastSquare(h.gui.selectedSquare), clicked,
                            NORMAL)},
                       LAMBDA made : setMovingPiece(made,
                            getLeastSquare(h.gui.selectedSquare), clicked))
             ELSE IF /\ h.gui.pieces[clicked] # NONE
                     /\ h.gui.pieces[clicked] <= PLAYER_KING
             THEN beginDragging(h, clicked)
             ELSE {[h EXCEPT !.gui.isCurrentMove = {},
                             !.gui.selectedSquare = {}]}

(***************************************************************************)
(* ChessGame::onMouseReleased.  A press on a square that is neither       *)
(* highlighted nor holds a piece sets selectedSquare to null, also while  *)
(* a piece is dragged: the release then reads selectedSquare->bounds,     *)
(* which is undefined, and the program stops there or goes on with the    *)
(* dragged piece on no square.                                            *)
(***************************************************************************)
onMouseReleased(h, mouse) ==
    IF mouse = {} THEN {h}
    ELSE IF h.gui.drawing THEN {[h EXCEPT !.gui.drawing = FALSE]}
    ELSE IF h.gui.pieceDragging = NONE THEN {h}
    ELSE IF h.gui.selectedSquare = {}
    THEN {[h EXCEPT !.pc = "crashed"],
          [h EXCEPT !.gui.pieceDragging = NONE, !.gui.isCurrentMove = {}]}
    ELSE LET clicked == getLeastSquare(mouse)
             from == getLeastSquare(h.gui.selectedSquare)
             back == [h EXCEPT !.gui.pieces[from] = h.gui.pieceDragging,
                               !.gui.pieceDragging = NONE]
         IN  IF mouse = h.gui.selectedSquare THEN {back}
             ELSE IF clicked \in h.gui.isCurrentMove
             THEN Then({[makePlayerMove(h, from, clicked, NORMAL)
                            EXCEPT !.gui.pieceDragging = NONE]},
                       LAMBDA made :
                           IF made.gui.promotionSquare # {} THEN {made}
                           ELSE Then({updateBoardGui(made)}, makeEngineMove))
             ELSE {[back EXCEPT !.gui.isCurrentMove = {}]}

\* ChessGame::updateMovingPiece on the frame the piece arrives
arrive(h) ==
    Then({updateBoardGui([h EXCEPT !.gui.pieceMoving = NONE,
                                   !.gui.frames = 0])},
         LAMBDA stopped : IF stopped.board.engineToMove
                          THEN makeEngineMove(stopped) ELSE {stopped})

(***************************************************************************)
(* The games the host plays are the openings of Lines.  The cursor is on  *)
(* a square of the player's next move of the opening, on the promotion    *)
(* choice of that move, or on no square; a handler's outcome is taken when *)
(* the moves it applied are the next ones of the opening, or, the opening *)
(* over, moves of the engine.                                             *)
(***************************************************************************)
Mice ==
    {{}} \cup
    IF step < Len(Lines[line])
    THEN LET next == Lines[line][step + 1]
         IN  {{next[1]}, {next[2]}} \cup
             {{promotionChoices[i].square} :
                 i \in {j \in 1..Len(promotionChoices) :
                          promotionType(promotionChoices[j]) = next[3]}}
    ELSE {}

Scripted(applied) ==
    \A k \in 1..Len(applied) :
        IF step + k <= Len(Lines[line])
        THEN <<applied[k].move.from, applied[k].move.to,
               applied[k].move.type>> = Lines[line][step + k]
        ELSE applied[k].isEngine

\* the objects as a handler finds them
Host(event) ==
    [board |-> board, generator |-> generator, last |-> last, pc |-> pc,
     gui |-> [gui EXCEPT !.event = event, !.applied = <<>>]]

\* the objects as a handler leaves them
Becomes(h) ==
    /\ Scripted(h.gui.applied)
    /\ board' = h.board
    /\ generator' = h.generator
    /\ gui' = h.gui
    /\ last' = h.last
    /\ pc' = h.pc
    /\ step' = step + Len(h.gui.applied)
    /\ UNCHANGED <<moves, stack, returned, outOfBounds, line, free, searches,
                   undone, lost>>

\* ChessGame::ChessGame up to its call of makeEngineMove
InitHost ==
    /\ board = NewBoard
    /\ generator = NewMoveGen
    /\ moves = <<>>
    /\ pc = "constructing"
    /\ stack = <<>>
    /\ returned = 0
    /\ outOfBounds \in OutOfBoundsValues
    /\ line \in 1..Len(Lines)
    /\ step = 0
    /\ free = 0
    /\ searches = 0
    /\ last = NoMove
    /\ undone = NotUndone
    /\ lost = {}
    /\ gui = NewGui

\* ChessGame::ChessGame, its last statement: the engine is white and moves
Construct ==
    /\ pc = "constructing"
    /\ \E constructed \in {[Host("construct") EXCEPT !.pc = "host"]} :
       \E h \in makeEngineMove(constructed) : Becomes(h)

\* main, SDL_MOUSEBUTTONDOWN
OnMousePressed ==
    /\ pc = "host"
    /\ \E mouse \in Mice, isRightClick \in BOOLEAN :
       \E found \in {Host("press")} :
       \E h \in onMousePressed(found, mouse, isRightClick) : Becomes(h)

\* main, SDL_MOUSEBUTTONUP
OnMouseReleased ==
    /\ pc = "host"
    /\ \E mouse \in Mice :
       \E found \in {Host("release")} :
       \E h \in onMouseReleased(found, mouse) : Becomes(h)

\* main, SDL_MOUSEMOTION: ChessGame::onMouseMoved moves the bounds of the
\* dragged piece
OnMouseMoved ==
    /\ pc = "host"
    /\ Becomes(Host("move"))

\* the piece is moving
isMoving == gui.pieceMoving # NONE /\ gui.promotionSquare = {}

\* ChessGame::updateMovingPiece, the piece has not reached its target
MovePiece ==
    /\ pc = "host"
    /\ isMoving
    /\ gui.frames > 1
    /\ Becomes([Host("frame") EXCEPT !.gui.frames = @ - 1])

\* ChessGame::updateMovingPiece, the piece has reached its target
CanArrive == pc = "host" /\ isMoving /\ gui.frames <= 1

Arrive ==
    /\ CanArrive
    /\ \E found \in {Host("frame")} :
       \E h \in arrive(found) : Becomes(h)

NextHost ==
    \/ Construct
    \/ OnMousePressed
    \/ OnMouseReleased
    \/ OnMouseMoved
    \/ MovePiece
    \/ Arrive

HostSpec == InitHost /\ [][NextHost]_vars

\* main calls updateMovingPiece in every frame
LiveHostSpec ==
    /\ HostSpec
    /\ WF_vars(MovePiece)
    /\ ([]<>(~CanArrive)) \/ ([]<><<Arrive>>_vars)

C8_RightsMonotone ==
    pc \in {"generate", "moves", "searched"} =>
        \A right \in lost : ~board.position[right]

\* a search in which a right was cleared has returned, and the right is set
C8_Witness ==
    /\ pc = "searched"
    /\ \E right \in Rights \ lost : board.position[right]
    /\ top.best.set
    /\ lost # {}

(***************************************************************************)
(* C11.  When the engine has no legal move, getBestMove returns a "no      *)
(* move" result and the caller applies no move: the position stays as it   *)
(* is once the search has returned without a best move.                    *)
(***************************************************************************)
C11_NoMoveAtGameOver ==
    [][(pc = "searched" /\ ~top.best.set) => board' = board]_vars

(***************************************************************************)
(* C12.  When the engine has a legal move, getBestMove returns one of the  *)
(* generated moves: one whose score, the value of minimize(1, MIN_EVAL,    *)
(* MAX_EVAL) after it, is the greatest of the scores of the root moves,    *)
(* and the first such move in the sorted order.                            *)
(***************************************************************************)
C12_FirstBestMove ==
    (pc = "searched" /\ top.moves # <<>>) =>
        /\ top.best.set
        /\ Len(top.scores) = Len(top.moves)
        /\ \E i \in 1..Len(top.moves) :
              /\ top.moves[i] = top.best.move
              /\ \A j \in 1..Len(top.moves) : top.scores[j] <= top.scores[i]
              /\ \A j \in 1..(i - 1) : top.scores[j] < top.scores[i]

\* getBestMove has returned from a position where the two moves of the engine
\* have the same score, and its move is the first of them
C12_Witness ==
    /\ pc = "searched"
    /\ Len(top.scores) = 2
    /\ top.scores[1] = top.scores[2]
    /\ top.best.set
    /\ top.best.move = top.moves[1]
    /\ top.moves[1] # top.moves[2]

(***************************************************************************)
(* C13.  The scores getBestMove gives the root moves are the values of a   *)
(* plain fixed-depth minimax without pruning, taken over the set of the    *)
(* generated moves in no order: the window and the break of maximize and   *)
(* minimize, and the order getSortedMoves puts the moves in, change none   *)
(* of them.                                                                *)
(***************************************************************************)
\* the greatest and the least of a set of scores
Greatest(values) == CHOOSE v \in values : \A w \in values : w <= v
Least(values) == CHOOSE v \in values : \A w \in values : v <= w

\* minimax to SEARCH_DEPTH with the terminal scores and the evaluation of
\* the search, no window and no order of the moves
RECURSIVE PlainMinimax(_, _, _)
PlainMinimax(board_, ply, isEngine) ==
    IF ply > SEARCH_DEPTH THEN evaluate(board_.position)
    ELSE LET generated == generateMoves(board_, NewMoveGen, isEngine).generated
             values == {PlainMinimax(makeMove(board_, generated[i], isEngine),
                                     ply + 1, ~isEngine) :
                           i \in 1..Len(generated)}
         IN  IF generated = <<>>
             THEN IF ~isKingInCheck(board_, isEngine) THEN 0
                  ELSE IF isEngine THEN MIN_EVAL + ply ELSE MAX_EVAL - ply
             ELSE IF isEngine THEN Greatest(values) ELSE Least(values)

C13_PlainMinimax ==
    pc = "searched" =>
        \A i \in 1..Len(top.scores) :
            top.scores[i] =
                PlainMinimax(makeMove(board, top.moves[i], TRUE), 1, FALSE)

\* getBestMove has returned the scores of two moves or more after a search
\* in which a loop was left by its break
C13_Witness ==
    /\ pc = "searched"
    /\ Len(top.scores) > 1
    /\ top.pruned

(***************************************************************************)
(* C14.  Terminal scoring: when maximize is entered at a ply within the    *)
(* search depth and the engine has no legal move, it returns MIN_EVAL +    *)
(* ply if the engine king is attacked and 0 if not; when minimize is       *)
(* entered so and the player has no legal move, it returns MAX_EVAL - ply  *)
(* if the player king is attacked and 0 if not.  The legal moves and the   *)
(* attack are those of the rules of chess.                                 *)
(***************************************************************************)
C14_Expected(fn, ply, position) ==
    LET isEngine == fn = "maximize"
        king == position.pieces[RulePiece(5, isEngine)]
        attacked == \E k \in king :
                        RuleAttacked(position, RuleMailbox(position), k, ~isEngine)
    IN  IF ~attacked THEN 0
        ELSE IF isEngine THEN MIN_EVAL + ply ELSE MAX_EVAL - ply

C15_InRange(score) == 0 - MAX_EVAL <= score /\ score <= MAX_EVAL

C15_Abs(score) == IF score < 0 THEN 0 - score ELSE score

\* the side to move is checkmated, by the rules of chess
C15_Checkmate(board_) ==
    LET position == board_.position
        king == position.pieces[RulePiece(5, board_.engineToMove)]
    IN  /\ \E k \in king : RuleAttacked(position, RuleMailbox(position), k,
                                         ~board_.engineToMove)
        /\ RuleLegalMoves(position, board_.engineToMove) = {}

\* a call of maximize or minimize has just returned: returned is the score
\* of the node whose position is on the board
C15_Returned == pc = "search" /\ top.at = "called"

C15_MateScoreBound ==
    /\ C15_InRange(evaluate(board.position))
    /\ C15_Returned =>
          /\ C15_InRange(returned)
          /\ C15_Checkmate(board) =>
                C15_Abs(returned) >= MAX_EVAL - SEARCH_DEPTH

C15_MateScoreBoundInDepth ==
    /\ C15_InRange(evaluate(board.position))
    /\ C15_Returned =>
          /\ C15_InRange(returned)
          /\ (C15_Checkmate(board) /\ top.ply + 1 <= SEARCH_DEPTH) =>
                C15_Abs(returned) >= MAX_EVAL - SEARCH_DEPTH

\* minimize has returned the score of a root move that mates the player
C15_Witness ==
    /\ C15_Returned
    /\ top.fn = "getBestMove"
    /\ C15_Checkmate(board)
    /\ returned = MAX_EVAL - 1

(***************************************************************************)
(* C16.  The evaluation is symmetric: the position with the bitboards of   *)
(* the engine and of the player swapped, kind for kind, and the board      *)
(* mirrored row for row so that a pawn advanced for one side is advanced   *)
(* for the other, has the opposite evaluation; and the kings count for     *)
(* nothing: the position without them has the same evaluation.            *)
(***************************************************************************)
\* the square of the same column in the mirrored row
C16_Mirror(s) == (7 - (s \div 8)) * 8 + (s % 8)

C16_Swapped(position) ==
    [position EXCEPT !.pieces =
        [p \in PieceTypes |->
            {C16_Mirror(s) : s \in position.pieces[(p + 6) % 12]}]]

C16_WithoutKings(position) ==
    [position EXCEPT !.pieces[PLAYER_KING] = {}, !.pieces[ENGINE_KING] = {}]

C16_SymmetricEvaluator ==
    /\ evaluate(C16_Swapped(board.position)) = 0 - evaluate(board.position)
    /\ evaluate(C16_WithoutKings(board.position)) = evaluate(board.position)

\* the search has just evaluated a leaf where the sides are not even and a
\* pawn of the player stands on a square that is advanced for the engine alone
C16_Witness ==
    /\ pc = "search"
    /\ top.at = "called"
    /\ top.ply + 1 > SEARCH_DEPTH
    /\ returned = evaluate(board.position)
    /\ returned # 0
    /\ board.position.pieces[PLAYER_PAWN]
          \cap (ENGINE_ADVANCED_PAWNS \ PLAYER_ADVANCED_PAWNS) # {}
    /\ evaluate(C16_Swapped(board.position)) = 0 - returned

(***************************************************************************)
(* C17.  Perft from the initial position: the generator gives the side to  *)
(* move exactly 20 moves, 8 single pawn pushes, 8 double pawn pushes and   *)
(* 4 knight moves, and the generated moves followed by the generated       *)
(* replies to each of them are exactly 400 sequences of two moves.         *)
(***************************************************************************)
\* the replies generated after the move, made on the board of the game
C17_Replies(move) ==
    generateMoves(makeMove(board, move, TRUE), generator, FALSE).generated

\* the number of the sequences of two moves that begin with moves[i..]
RECURSIVE C17_Sequences(_)
C17_Sequences(i) ==
    IF i > Len(moves) THEN 0
    ELSE Cardinality({C17_Replies(moves[i])[j] :
                         j \in 1..Len(C17_Replies(moves[i]))})
            + C17_Sequences(i + 1)

\* the moves of the engine are generated in the initial position
C17_AtStart == pc = "moves" /\ step = 0 /\ free = 0 /\ board.engineToMove

C17_Perft ==
    C17_AtStart =>
        LET generated == {moves[i] : i \in 1..Len(moves)}
            pushes(rows) == {move \in generated :
                                /\ move.moving = ENGINE_PAWN
                                /\ move.type = NORMAL
                                /\ move.captured = NONE
                                /\ move.to = move.from + 8 * rows}
            knights == {move \in generated : move.moving = ENGINE_KNIGHT}
        IN  /\ Len(moves) = 20
            /\ Cardinality(generated) = 20
            /\ Cardinality(pushes(1)) = 8
            /\ Cardinality(pushes(2)) = 8
            /\ Cardinality(knights) = 4
            /\ C17_Sequences(1) = 400

\* the moves are generated in the initial position, a double push among them
C17_Witness ==
    /\ C17_AtStart
    /\ board = NewBoard
    /\ \E i \in 1..Len(moves) : moves[i].to = moves[i].from + 16
    /\ \E i \in 1..Len(moves) :
          \E j \in 1..Len(C17_Replies(moves[i])) :
             C17_Replies(moves[i])[j].to = C17_Replies(moves[i])[j].from - 16

(***************************************************************************)
(* C18.  generateKingMoves emits the castling move of a wing for the side  *)
(* to move if and only if the side holds the right of that wing, every     *)
(* square between the king and the rook of that wing is empty, and the     *)
(* square of the king, the square it crosses and the square it lands on    *)
(* are safe by isSafeSquare.  On the queenside the square next to the rook *)
(* is among those that must be empty and is not among those that must be   *)
(* safe.                                                                   *)
(***************************************************************************)
\* the wings of a side: the right, the home of the king, the squares between
\* king and rook, and the squares the king stands on, crosses and lands on
C18_Wings(isEngine) ==
    IF isEngine
    THEN {[right |-> "engineCastleKingside", home |-> 3, between |-> {1, 2},
           path |-> {3, 2, 1}, destination |-> 1],
          [right |-> "engineCastleQueenside", home |-> 3, between |-> {4, 5, 6},
           path |-> {3, 4, 5}, destination |-> 5]}
    ELSE {[right |-> "playerCastleKingside", home |-> 59, between |-> {57, 58},
           path |-> {59, 58, 57}, destination |-> 57],
          [right |-> "playerCastleQueenside", home |-> 59, between |-> {60, 61, 62},
           path |-> {59, 60, 61}, destination |-> 61]}

\* the generated moves hold the castling move of the wing
C18_Emitted(wing, isEngine) ==
    \E i \in 1..Len(moves) :
        /\ moves[i].moving = (IF isEngine THEN ENGINE_KING ELSE PLAYER_KING)
        /\ moves[i].from = wing.home
        /\ moves[i].to = wing.destination

C18_Allowed(wing, isEngine) ==
    /\ board.position[wing.right]
    /\ \A s \in wing.between :
          \A p \in PieceTypes : s \notin board.position.pieces[p]
    /\ \A s \in wing.path : isSafeSquare(board, s, isEngine)

C18_CastlingEmitted ==
    pc = "moves" =>
        \A wing \in C18_Wings(board.engineToMove) :
            C18_Emitted(wing, board.engineToMove)
                <=> C18_Allowed(wing, board.engineToMove)

\* the moves of a side hold its queenside castling move while the square
\* next to the rook is not safe
C18_Witness ==
    /\ pc = "moves"
    /\ \E wing \in C18_Wings(board.engineToMove) :
          /\ C18_Emitted(wing, board.engineToMove)
          /\ \E s \in wing.between \ wing.path :
                ~isSafeSquare(board, s, board.engineToMove)

(***************************************************************************)
(* C19.  The horizontal X-ray rule of en passant.  When enPassantCapture   *)
(* is set and a pawn of the side to move stands next to it and would not   *)
(* leave an ordinal pin by capturing, the EN_PASSANT move of that pawn is  *)
(* withheld if and only if, with that pawn and the captured pawn taken off *)
(* the rank, the first piece along the rank on one side of the pawn is the *)
(* king of the side to move and the first piece on the other side is a     *)
(* rook or a queen of the opponent; otherwise the move is generated.  The  *)
(* pawns considered are those the generator takes as far as the scan: not  *)
(* on a cardinal pin, the capture answering a check if there is one.       *)
(***************************************************************************)
\* the first piece from square s along its row in direction dir, the
\* captured pawn passed over, or NONE
RECURSIVE C19_FirstPiece(_, _)
C19_FirstPiece(s, dir) ==
    LET next == s + dir
    IN  IF next < 0 \/ next > 63 \/ next \div 8 # s \div 8 THEN NONE
        ELSE IF next \in board.position.enPassantCapture
                \/ \A p \in PieceTypes : next \notin board.position.pieces[p]
        THEN C19_FirstPiece(next, dir)
        ELSE CHOOSE p \in PieceTypes : next \in board.position.pieces[p]

C19_XRay(from, isEngine) ==
    \E dir \in {0 - 1, 1} :
        /\ C19_FirstPiece(from, dir) = (IF isEngine THEN ENGINE_KING ELSE PLAYER_KING)
        /\ C19_FirstPiece(from, 0 - dir) \in
              (IF isEngine THEN {PLAYER_ROOK, PLAYER_QUEEN}
                           ELSE {ENGINE_ROOK, ENGINE_QUEEN})

\* the square the pawn next to the captured pawn goes to
C19_To(captured, isEngine) == IF isEngine THEN captured + 8 ELSE captured - 8

\* the pawns that reach the scan of generatePawnMoves
C19_Capturers(isEngine) ==
    {from \in board.position.pieces[IF isEngine THEN ENGINE_PAWN ELSE PLAYER_PAWN] :
        /\ from \notin generator.cardinalPins
        /\ \E captured \in board.position.enPassantCapture :
              /\ captured \in {from - 1, from + 1}
              /\ captured \div 8 = from \div 8
              /\ captured \in generator.blockerSquares
              /\ ~(/\ from \in generator.ordinalPins
                    /\ C19_To(captured, isEngine) \notin generator.ordinalPins)}

C19_Withheld(from) ==
    ~\E i \in 1..Len(moves) :
        moves[i].type = EN_PASSANT /\ moves[i].from = from

C19_XRayRule ==
    pc = "moves" =>
        \A from \in C19_Capturers(board.engineToMove) :
            C19_Withheld(from) <=> C19_XRay(from, board.engineToMove)

(***************************************************************************)
(* C20.  Promotion fan-out.  For every legal push or capture of a pawn to  *)
(* the last rank of its side the generator emits exactly four moves with   *)
(* that from and to, one each of QUEEN_PROMOTION, KNIGHT_PROMOTION,        *)
(* BISHOP_PROMOTION and ROOK_PROMOTION, and no NORMAL move; makeMove on    *)
(* such a move takes the pawn off from, leaves no pawn on to and leaves to *)
(* in the bitboard of the promoted kind of the mover and in no other.      *)
(***************************************************************************)
\* from and to of the legal pawn moves to the last rank, by the rules
C20_Promoting(isEngine) ==
    IF board.position.pieces[RulePiece(0, isEngine)]
          \cap RankOf(IF isEngine THEN 6 ELSE 1) = {}
    THEN {}
    ELSE {<<move.from, move.to>> :
             move \in {m \in RuleLegalMoves(board.position, isEngine) :
                          /\ RuleKind(m.moving) = 0
                          /\ RuleRow(m.to) = (IF isEngine THEN 7 ELSE 0)}}

\* the positions in moves of the moves with that from and to
C20_Emitted(fromTo) ==
    {i \in 1..Len(moves) : <<moves[i].from, moves[i].to>> = fromTo}

\* the piece makeMove puts on the destination
C20_Promoted(type, isEngine) ==
    CASE type = QUEEN_PROMOTION -> IF isEngine THEN ENGINE_QUEEN ELSE PLAYER_QUEEN
      [] type = KNIGHT_PROMOTION -> IF isEngine THEN ENGINE_KNIGHT ELSE PLAYER_KNIGHT
      [] type = BISHOP_PROMOTION -> IF isEngine THEN ENGINE_BISHOP ELSE PLAYER_BISHOP
      [] type = ROOK_PROMOTION -> IF isEngine THEN ENGINE_ROOK ELSE PLAYER_ROOK

C20_Applied(move, isEngine) ==
    LET pieces == makeMove(board, move, isEngine).position.pieces
    IN  /\ move.from \notin pieces[move.moving]
        /\ move.to \notin pieces[PLAYER_PAWN] \cup pieces[ENGINE_PAWN]
        /\ \A p \in PieceTypes :
              move.to \in pieces[p] <=> p = C20_Promoted(move.type, isEngine)

C20_PromotionFanOut ==
    pc = "moves" =>
        \A fromTo \in C20_Promoting(board.engineToMove) :
            /\ Cardinality(C20_Emitted(fromTo)) = 4
            /\ {moves[i].type : i \in C20_Emitted(fromTo)} =
                  {QUEEN_PROMOTION, KNIGHT_PROMOTION, BISHOP_PROMOTION,
                   ROOK_PROMOTION}
            /\ \A i \in C20_Emitted(fromTo) :
                  C20_Applied(moves[i], board.engineToMove)

\* a pawn of the side to move can promote by a push and by a capture
C20_Witness ==
    /\ pc = "moves"
    /\ \E i \in 1..Len(moves), j \in 1..Len(moves) :
          /\ moves[i].type = KNIGHT_PROMOTION
          /\ moves[i].captured = NONE
          /\ moves[j].type = ROOK_PROMOTION
          /\ moves[j].captured # NONE

(***************************************************************************)
(* C21.  blockerSquares, once the moves of the side to move are generated, *)
(* is all squares when its king is not in check; with exactly one checker  *)
(* it is the square of the checker and, for a bishop, rook or queen, the   *)
(* squares between the checker and the king; with two checkers or more it  *)
(* is empty, and then every generated move is a move of the king.  The     *)
(* checkers are the pieces that attack the king by the rules of chess.     *)
(***************************************************************************)
\* the king of the side isEngine
C21_King(isEngine) ==
    CHOOSE k \in board.position.pieces[RulePiece(5, isEngine)] : TRUE

\* the squares of the pieces of the other side that attack that king
C21_Checkers(isEngine) ==
    LET mailbox == RuleMailbox(board.position)
        At(s) == mailbox[s]
    IN  {a \in RuleSquares(board.position, ~isEngine) :
            RuleAttacks(mailbox[a], a, C21_King(isEngine), At)}

C21_Expected(isEngine) ==
    LET checkers == C21_Checkers(isEngine)
        checker == CHOOSE a \in checkers : TRUE
        slider == \E kind \in {2, 3, 4} :
                     checker \in board.position.pieces[RulePiece(kind, ~isEngine)]
    IN  IF checkers = {} THEN Squares
        ELSE IF Cardinality(checkers) = 1
        THEN {checker} \cup
                (IF slider THEN RuleBetween(checker, C21_King(isEngine)) ELSE {})
        ELSE {}

C21_BlockerSquares ==
    pc = "moves" =>
        /\ generator.blockerSquares = C21_Expected(board.engineToMove)
        /\ Cardinality(C21_Checkers(board.engineToMove)) >= 2 =>
              \A i \in 1..Len(moves) :
                  moves[i].moving = RulePiece(5, board.engineToMove)

\* the side to move is in double check, a piece of its own other than the
\* king attacks one of the checkers, and the king has a move
C21_Witness ==
    LET mailbox == RuleMailbox(board.position)
        At(s) == mailbox[s]
    IN  /\ pc = "moves"
        /\ Cardinality(C21_Checkers(board.engineToMove)) = 2
        /\ moves # <<>>
        /\ \E a \in RuleSquares(board.position, board.engineToMove)
                       \ {C21_King(board.engineToMove)} :
              \E checker \in C21_Checkers(board.engineToMove) :
                  RuleAttacks(mailbox[a], a, checker, At)

(***************************************************************************)
(* C22.  makeMove on a castling move, a move of the king by two files that *)
(* the generator emitted, takes the rook of that wing off its corner and   *)
(* puts it on the square the king crossed, leaves the corner empty and     *)
(* clears both castling rights of the side that moved; makeMove on any     *)
(* other generated move of a king clears both rights of that side as well  *)
(* and leaves the rooks of that side where they were.                      *)
(***************************************************************************)
\* a generated move of a king is being made
C22_KingMoves ==
    /\ pc = "moves"
    /\ pc' = "generate"
    /\ last'.move.moving = RulePiece(5, last'.isEngine)

\* the move is a castling move
C22_IsCastle(move) == Abs((move.from % 8) - (move.to % 8)) = 2

\* the corner of the wing the king castles to, and the square it crosses
C22_Corner(move) == IF move.to < move.from THEN move.from - 3 ELSE move.from + 4
C22_Crossed(move) == (move.from + move.to) \div 2

C22_Castling ==
    [][C22_KingMoves =>
        LET isEngine == last'.isEngine
            move == last'.move
            rooks == board.position.pieces[RulePiece(3, isEngine)]
            rooksAfter == board'.position.pieces[RulePiece(3, isEngine)]
        IN  /\ ~board'.position[IF isEngine THEN "engineCastleKingside"
                                            ELSE "playerCastleKingside"]
            /\ ~board'.position[IF isEngine THEN "engineCastleQueenside"
                                            ELSE "playerCastleQueenside"]
            /\ IF C22_IsCastle(move)
               THEN /\ C22_Corner(move) \in rooks
                    /\ C22_Crossed(move) \notin rooks
                    /\ rooksAfter = (rooks \ {C22_Corner(move)})
                                       \cup {C22_Crossed(move)}
                    /\ \A p \in PieceTypes :
                          C22_Corner(move) \notin board'.position.pieces[p]
               ELSE rooksAfter = rooks]_vars

\* the player has just castled queenside: its rook stands on the square the
\* king crossed and the corner is empty
C22_Witness ==
    /\ GeneratedMovesOnly
    /\ last.made
    /\ ~last.isEngine
    /\ last.move = Move(NORMAL, 59, 61, PLAYER_KING, NONE)
    /\ 60 \in board.position.pieces[PLAYER_ROOK]
    /\ 63 \in board.emptySquares
    /\ board.position.playerCastleKingside = FALSE

(***************************************************************************)
(* C23.  makeMove on a generated move of a piece other than the king       *)
(* clears the kingside (queenside) right of the opponent exactly when the  *)
(* move captures a rook of the opponent on the kingside (queenside) corner *)
(* the rook started on, clears the kingside (queenside) right of the mover *)
(* exactly when the piece is a rook that leaves the kingside (queenside)   *)
(* corner it started on, and leaves every other right as it was: a move    *)
(* that is none of these leaves all four rights unchanged.                 *)
(***************************************************************************)
\* a generated move of a piece other than the king is being made
C23_OtherMoves ==
    /\ pc = "moves"
    /\ pc' = "generate"
    /\ last'.move.moving # RulePiece(5, last'.isEngine)

\* the corner the rook of a right starts on, and the side that holds it
C23_CornerOf(right) ==
    CASE right = "engineCastleKingside" -> 0
      [] right = "engineCastleQueenside" -> 7
      [] right = "playerCastleKingside" -> 56
      [] right = "playerCastleQueenside" -> 63

C23_EngineHolds(right) ==
    right \in {"engineCastleKingside", "engineCastleQueenside"}

\* the move of the side isEngine revokes the right
C23_Revokes(move, isEngine, right) ==
    IF C23_EngineHolds(right) = isEngine
    THEN /\ move.moving = RulePiece(3, isEngine)
         /\ move.from = C23_CornerOf(right)
    ELSE /\ move.captured = RulePiece(3, ~isEngine)
         /\ move.to = C23_CornerOf(right)

C23_RookRights ==
    [][C23_OtherMoves =>
        \A right \in Rights :
            board'.position[right] =
                (board.position[right]
                    /\ ~C23_Revokes(last'.move, last'.isEngine, right))]_vars

\* the engine has just taken the rook on the player's queenside corner with a
\* piece that is neither its king nor a rook from a corner of its own: that
\* right of the player is lost and the three others are held
C23_Witness ==
    /\ GeneratedMovesOnly
    /\ last.made
    /\ last.isEngine
    /\ last.move.captured = PLAYER_ROOK
    /\ last.move.to = 63
    /\ cleared(board.position) = {"playerCastleQueenside"}

(***************************************************************************)
(* C24.  The search leaves the game state as it found it: when             *)
(* getBestMove, maximize or minimize returns, after a break of its loop    *)
(* as after a loop run to its end, at a leaf and with no move to make, the *)
(* twelve piece bitboards, the four castling rights, enPassantCapture and  *)
(* engineToMove have the values they had when the function was entered.    *)
(***************************************************************************)
\* a call of maximize or minimize returns in this step
C24_CallReturns == pc = "search" /\ Len(stack') < Len(stack)

\* getBestMove returns in this step
C24_SearchReturns == pc # "searched" /\ pc' = "searched"

C24_Same(board_, entered) ==
    /\ board_.position = entered.position
    /\ board_.engineToMove = entered.engineToMove

C24_StateUntouched ==
    [][/\ C24_CallReturns => C24_Same(board', top.entered)
       /\ C24_SearchReturns => C24_Same(board', stack'[1].entered)]_vars

\* getBestMove has returned from a search of two root moves or more in which
\* a loop was left by its break and a capture was made and taken back: the
\* position and the side to move are those it was entered with, and the
\* occupied squares are not
C24_Witness ==
    /\ pc = "searched"
    /\ top.pruned
    /\ Len(top.scores) > 1
    /\ C24_Same(board, top.entered)
    /\ board.occupiedSquares # top.entered.occupiedSquares

(***************************************************************************)
(* C25.  getBestMove always terminates.  The recursion of maximize and     *)
(* minimize is never deeper than ply SEARCH_DEPTH + 1: the activation      *)
(* records on the stack are those of getBestMove and of plies 1, 2, ... in *)
(* that order, the last at most SEARCH_DEPTH + 1.  A call at ply           *)
(* SEARCH_DEPTH + 1 returns evaluate of the position and generates no      *)
(* move.  Every node goes through its move list once: the list of a record *)
(* is never changed, its index never goes back and never passes the end of *)
(* the list by more than one, and one score is taken for each move tried.  *)
(* A search that has begun returns.                                        *)
(***************************************************************************)
C25_Searching == pc \in {"search", "searched"}

C25_DepthBound ==
    C25_Searching =>
        /\ Len(stack) <= SEARCH_DEPTH + 2
        /\ \A i \in 1..Len(stack) :
              /\ stack[i].ply = i - 1
              /\ stack[i].index \in 1..(Len(stack[i].moves) + 1)
              /\ Len(stack[i].scores) = stack[i].index - 1
              /\ stack[i].at = "loop" => stack[i].index <= Len(stack[i].moves)

C25_LeafStep ==
    (pc = "search" /\ top.at = "enter" /\ top.ply = SEARCH_DEPTH + 1) =>
        /\ returned' = evaluate(board.position)
        /\ generator' = generator
        /\ stack' = callers

C25_OncePerMove ==
    (pc = "search" /\ pc' \in {"search", "searched"}) =>
        \A i \in 1..Len(stack) :
            (i <= Len(stack') /\ stack[i].at # "enter") =>
                /\ stack'[i].moves = stack[i].moves
                /\ stack'[i].index >= stack[i].index
                /\ stack'[i].index <= stack[i].index + 1

C25_Terminates ==
    /\ []C25_DepthBound
    /\ [][C25_LeafStep /\ C25_OncePerMove]_vars
    /\ (pc = "search") ~> (pc = "searched")

\* a call at ply SEARCH_DEPTH + 1 has just returned the evaluation of its
\* position to a node that is going through its moves
C25_Witness ==
    /\ pc = "search"
    /\ Len(stack) = SEARCH_DEPTH + 1
    /\ top.at = "called"
    /\ top.ply = SEARCH_DEPTH
    /\ top.index > 1
    /\ returned = evaluate(board.position)

----------------------------------------------------------------------------
(***************************************************************************)
(* C26: the magic tables are a perfect hash.  For the row the constructor  *)
(* wrote last, the magic it stored, and every occupancy (every subset of   *)
(* the blocker mask, alone and with every other square of the board        *)
(* occupied as well), the index (occupancy & blockers) * magic >> shift is *)
(* below 4096 (cardinal) or 512 (ordinal) and the row holds at it the ray  *)
(* walk getRookAttacks or getBishopAttacks of the occupancy with captures; *)
(* the mask has at most 12 (cardinal) or 9 (ordinal) squares.              *)
(***************************************************************************)
C26_RowWritten == pc \in {"construct", "constructed"} /\ generator.row # NoRow

\* the magic stored for the row
C26_Magic ==
    IF generator.row.isCardinal
    THEN generator.cardinalMagics[generator.row.square + 1]
    ELSE generator.ordinalMagics[generator.row.square + 1]

\* the occupancies that are told apart: the squares off the mask are empty
\* or all occupied
C26_Occupancies(mask) ==
    {blockers \cup outside : blockers \in SUBSET mask,
                             outside \in {{}, Squares \ mask}}

\* the ray walk of the occupancy
C26_RayWalk(square, isCardinal, occupancy) ==
    IF isCardinal THEN getRookAttacks(square, occupancy, TRUE)
    ELSE getBishopAttacks(square, occupancy, TRUE)

C26_PerfectHash ==
    C26_RowWritten =>
        LET square == generator.row.square
            isCardinal == generator.row.isCardinal
            mask == blockerMask(square, isCardinal)
            shifted == shiftedBy(mask, C26_Magic)
        IN  /\ 2 ^ countSetBits(mask) <= maxPermutations(isCardinal)
            /\ \A occupancy \in C26_Occupancies(mask) :
              LET index == magicHash(shifted, occupancy \cap mask, isCardinal)
              IN  /\ index < maxPermutations(isCardinal)
                  /\ generator.row.attacks[index]
                       = C26_RayWalk(square, isCardinal, occupancy)

\* the constructor has finished: all 128 magics are stored and the last row,
\* of the bishop on square 63, is written
C26_Witness ==
    /\ pc = "constructed"
    /\ Len(generator.cardinalMagics) = 64
    /\ Len(generator.ordinalMagics) = 64
    /\ generator.row.square = 63
    /\ ~generator.row.isCardinal
    /\ generator.row.attacks[0] # {}

----------------------------------------------------------------------------
(***************************************************************************)
(* C27.  In every position reached from the initial position by generated  *)
(* moves, a side that holds a castling right has its king on the square    *)
(* the king started on and a rook of its own on the corner of that wing;   *)
(* and after a generated castling move the corner the rook left is empty   *)
(* and the rook stands on the square the king crossed: no rook was toggled *)
(* into existence on the corner and none was left behind.                  *)
(***************************************************************************)
\* the square the king of a side starts on
C27_KingHome(isEngine) == IF isEngine THEN 3 ELSE 59

\* the side holds the right with its king and the rook of the wing at home
C27_AtHome(right) ==
    LET isEngine == C23_EngineHolds(right)
    IN  /\ board.position.pieces[RulePiece(5, isEngine)] = {C27_KingHome(isEngine)}
        /\ C23_CornerOf(right) \in board.position.pieces[RulePiece(3, isEngine)]

\* the move last made was a castling move
C27_Castled ==
    /\ last.made
    /\ last.move.moving = RulePiece(5, last.isEngine)
    /\ C22_IsCastle(last.move)

C27_RightsMeanPieces ==
    GeneratedMovesOnly =>
        /\ \A right \in Rights : board.position[right] => C27_AtHome(right)
        /\ C27_Castled =>
             /\ \A p \in PieceTypes :
                   C22_Corner(last.move) \notin board.position.pieces[p]
             /\ C22_Crossed(last.move) \in
                   board.position.pieces[RulePiece(3, last.isEngine)]
             /\ last.move.from = C27_KingHome(last.isEngine)

\* the engine has just castled while the player, one of whose rights is lost
\* already, holds the other one
C27_Witness ==
    /\ GeneratedMovesOnly
    /\ C27_Castled
    /\ last.isEngine
    /\ Cardinality(cleared(board.position)) = 3
    /\ \E right \in Rights \ cleared(board.position) : C27_AtHome(right)

----------------------------------------------------------------------------
(***************************************************************************)
(* C28.  Whenever generateEngineMoves, generatePlayerMoves or              *)
(* isKingInCheck is about to run, from the host (the player's moves, the   *)
(* first statements of getBestMove) or in maximize and minimize below the  *)
(* leaf test, occupiedSquares, emptySquares, enginePieces, playerPieces,   *)
(* playerOrEmpty and engineOrEmpty are the unions of the twelve piece      *)
(* bitboards of the position, although the undo of the search copies the   *)
(* position back without a call of update.                                 *)
(***************************************************************************)
\* the next statement of the program calls the generator
C28_GeneratorRuns ==
    \/ pc = "generate"
    \/ pc = "search" /\ top.at = "enter" /\ ~isLeaf(top.ply)

\* the derived masks of a board are those of its position
C28_Fresh(board_) ==
    LET pieces == board_.position.pieces
        engine == UNION {pieces[p] : p \in ENGINE_PAWN..ENGINE_KING}
        player == UNION {pieces[p] : p \in PLAYER_PAWN..PLAYER_KING}
    IN  /\ board_.occupiedSquares = engine \cup player
        /\ board_.emptySquares = Squares \ (engine \cup player)
        /\ board_.enginePieces = engine
        /\ board_.playerPieces = player
        /\ board_.playerOrEmpty = Squares \ engine
        /\ board_.engineOrEmpty = Squares \ player

C28_MasksWhenGenerating == C28_GeneratorRuns => C28_Fresh(board)

\* maximize or minimize is about to generate the moves of the position its
\* caller reached with a move made after the undo of an earlier one
C28_Witness ==
    /\ pc = "search"
    /\ top.at = "enter"
    /\ ~isLeaf(top.ply)
    /\ undone = NotUndone
    /\ Len(stack) > 2
    /\ stack[Len(stack) - 1].index > 1
    /\ C28_Fresh(board)

----------------------------------------------------------------------------
(***************************************************************************)
(* C29.  getSortedMoves returns a permutation of the generated list: every *)
(* call of a generate function followed by getSortedMoves, from the host   *)
(* and in getBestMove, maximize and minimize, hands out each move the      *)
(* generate call pushed exactly once and nothing else, leaves the          *)
(* generator's own list empty, and leaves the list of every function that  *)
(* is in its loop or waits for a deeper call as it was.                    *)
(***************************************************************************)
\* how often a move is in a list
C29_Count(list, move) == Cardinality({i \in 1..Len(list) : list[i] = move})

C29_IsPermutation(sorted, generated) ==
    /\ Len(sorted) = Len(generated)
    /\ \A move \in Range(sorted) \cup Range(generated) :
          C29_Count(sorted, move) = C29_Count(generated, move)

\* the step calls a generate function and getSortedMoves: the host for the
\* player or the engine, getBestMove, maximize or minimize below the leaf
C29_HostSorts == pc = "generate" /\ pc' = "moves"
C29_RootSorts == pc = "generate" /\ pc' \in {"search", "searched"}
C29_NodeSorts == pc = "search" /\ top.at = "enter" /\ ~isLeaf(top.ply)

\* the list the step hands out, and the side it was generated for
C29_Sorted ==
    IF C29_HostSorts THEN moves'
    ELSE IF C29_RootSorts THEN stack'[1].moves
    ELSE IF Len(stack') = Len(stack) THEN stack'[Len(stack')].moves
    ELSE <<>>

C29_ForEngine ==
    IF C29_NodeSorts THEN movesEngine(top.fn) ELSE board.engineToMove

C29_SortedIsPermutation ==
    [][/\ generator'.generated = <<>>
       /\ (C29_HostSorts \/ C29_RootSorts \/ C29_NodeSorts) =>
             C29_IsPermutation(C29_Sorted,
                 generateMoves(board, generator, C29_ForEngine).generated)
       /\ \A i \in 1..Len(stack) :
             (i <= Len(stack') /\ stack[i].at # "enter") =>
                 stack'[i].moves = stack[i].moves]_vars

\* a function two calls below getBestMove has its list, more than one move
\* in another order than they were generated in, while its callers wait with
\* lists of their own
C29_Witness ==
    /\ pc = "search"
    /\ Len(stack) > 2
    /\ top.at = "loop"
    /\ top.index = 1
    /\ generator.generated = <<>>
    /\ \E generated \in {generateMoves(board, generator, movesEngine(top.fn)).generated} :
          /\ top.moves # generated
          /\ C29_IsPermutation(top.moves, generated)
    /\ \A i \in 1..Len(stack) - 1 :
          stack[i].at = "called" /\ stack[i].moves # top.moves

(***************************************************************************)
(* C30.  Turn alternation in the host loop.  Over the presses, releases   *)
(* and moves of the mouse and the frames of the animation: every call of  *)
(* makeMove<false> finds engineToMove false and every call of             *)
(* makeMove<true> finds it true; a mouse event that comes while a piece   *)
(* is moving leaves the position as it is; the moves applied are the      *)
(* engine's and the player's in turn; and a move of the player is         *)
(* followed by a move of the engine.                                      *)
(***************************************************************************)
C30_MouseEvents == {"press", "release", "move"}

C30_ForSideToMove ==
    \A k \in 1..Len(gui.applied) :
        gui.applied[k].isEngine = gui.applied[k].engineToMove

C30_NoInputWhileMoving ==
    (isMoving /\ gui'.event \in C30_MouseEvents) =>
        board'.position = board.position

\* the side that moved before the k-th move of the step; the engine is
\* white and moves first
C30_MovedBefore(k) ==
    IF k > 1 THEN gui'.applied[k - 1].isEngine
    ELSE IF last.made THEN last.isEngine ELSE FALSE

C30_InTurn ==
    \A k \in 1..Len(gui'.applied) :
        gui'.applied[k].isEngine # C30_MovedBefore(k)

C30_PlayerMoved == last.made /\ ~last.isEngine

C30_EngineMoved == last.made /\ last.isEngine

C30_TurnAlternation ==
    /\ []C30_ForSideToMove
    /\ [][C30_NoInputWhileMoving]_vars
    /\ [][C30_InTurn]_vars
    /\ C30_PlayerMoved ~> C30_EngineMoved

====
